---- MODULE Spec2Model ----
(***************************************************************************)
(* A model of the geometry import / merge / serialize pipeline of          *)
(* tr_3D_scenes_gltf_generator: the OBJ, MTL, PLY and GLB importers, the    *)
(* procedural generators, the GeoJSON converter and the glTF/GLB builder.   *)
(*                                                                         *)
(* Numbers.  A JavaScript number / Float32 value is a fixed-point integer,  *)
(* One standing for 1.0, and NaN a reserved value that every arithmetic     *)
(* operator propagates.  Typed arrays are sequences; a Uint16Array element  *)
(* is reduced modulo 2^16 when it is stored.  An optional field is a        *)
(* sequence of length at most one: None when it is undefined, Some(x)       *)
(* otherwise.  Text inputs are sequences of already tokenised lines.        *)
(***************************************************************************)
EXTENDS Integers, Sequences, FiniteSets, TLC

VARIABLES
  objText,      \* parseObj: the mesh text handed to the importer, Some(lines) or None
  mtlText,      \* parseObj: the companion material text, Some(lines) or None
  objCalls,     \* parseObj: the locals and the result of every call so far
  otherCalls,   \* results of the calls made between two calls on the same input
  plyText,      \* parsePly: the text handed to the importer, Some(lines) or None
  plyCalls,     \* parsePly: the locals and the result of every call so far
  scene,        \* the serializer: the shape list of the scene, Some(list) or None
  glbFile,      \* parseGlb: a container that did not come from buildGlb, Some(bytes) or None
  builds,       \* the input, the locals and the output of every buildGlb / buildGltf call so far
  imports,      \* the source and the result of every parseGlb call so far
  geoInput,     \* parseGeoJsonToShapes: Some([features, customModels]) or None
  geoCalls,     \* the random values and the result of every converter call so far
  cachedTree,   \* stockModels.ts: let cachedTree, None for null
  cachedRock    \* stockModels.ts: let cachedRock, None for null

objVars == << objText, mtlText, objCalls, otherCalls >>
plyVars == << plyText, plyCalls >>
glbVars == << scene, glbFile, builds, imports >>
geoVars == << geoInput, geoCalls, cachedTree, cachedRock >>
vars == << objVars, plyVars, glbVars, geoVars >>

----------------------------------------------------------------------------
(* Bounds of the model. *)

MaxLines == 2        \* face / usemtl records that follow the vertex block of a mesh text
MaxCalls == 2        \* invocations of one importer or serializer on the same input
MaxShapes == 2       \* shapes of a serialized scene
MaxFeatures == 2     \* features of a geographic text

----------------------------------------------------------------------------
(* Numbers and optional values. *)

One == 1000
NaN == -999999999
U16 == 65536

None == << >>
Some(x) == << x >>

TruncDiv(x, d) == IF x >= 0 THEN x \div d ELSE -((-x) \div d)

NAdd(a, b) == IF a = NaN \/ b = NaN THEN NaN ELSE a + b
NSub(a, b) == IF a = NaN \/ b = NaN THEN NaN ELSE a - b
NMul(a, b) == IF a = NaN \/ b = NaN THEN NaN ELSE TruncDiv(a * b, One)
NDiv(a, b) == IF a = NaN \/ b = NaN \/ b = 0 THEN NaN ELSE TruncDiv(a * One, b)

RECURSIVE ISqrtBetween(_, _, _)
ISqrtBetween(n, lo, hi) ==
  IF lo >= hi THEN lo
  ELSE LET mid == (lo + hi + 1) \div 2
       IN  IF mid * mid <= n THEN ISqrtBetween(n, mid, hi)
                             ELSE ISqrtBetween(n, lo, mid - 1)

\* Math.sqrt on a fixed-point value: sqrt(x / One) * One = sqrt(x * One)
Sqrt(x) == IF x = NaN \/ x < 0 THEN NaN ELSE ISqrtBetween(x * One, 0, 46340)

\* a[i] of a JavaScript array used in arithmetic: undefined (NaN) past the end
At(a, i) == IF i <= Len(a) THEN a[i] ELSE NaN

RECURSIVE Flatten(_)
\* the concatenation of a sequence of sequences, by halves
Flatten(ss) ==
  IF Len(ss) = 0 THEN << >>
  ELSE IF Len(ss) = 1 THEN ss[1]
  ELSE Flatten(SubSeq(ss, 1, Len(ss) \div 2)) \o Flatten(SubSeq(ss, (Len(ss) \div 2) + 1, Len(ss)))

ToUint16Array(s) == [i \in 1..Len(s) |-> s[i] % U16]
ToFloat32Array(s) == [i \in 1..Len(s) |-> s[i]]

----------------------------------------------------------------------------
(* Vector helpers of the importers. *)

subtract(a, b) ==
  << NSub(At(a, 1), At(b, 1)), NSub(At(a, 2), At(b, 2)), NSub(At(a, 3), At(b, 3)) >>

\* a variant with the operands exchanged
cross_Exchanged(a, b) ==
  << NSub(NMul(b[2], a[3]), NMul(b[3], a[2])),
     NSub(NMul(b[3], a[1]), NMul(b[1], a[3])),
     NSub(NMul(b[1], a[2]), NMul(b[2], a[1])) >>

cross(a, b) ==
  << NSub(NMul(a[2], b[3]), NMul(a[3], b[2])),
     NSub(NMul(a[3], b[1]), NMul(a[1], b[3])),
     NSub(NMul(a[1], b[2]), NMul(a[2], b[1])) >>

\* len > 0.00001 is len > 0 at the resolution 1/One
normalize(v) ==
  LET len == Sqrt(NAdd(NAdd(NMul(v[1], v[1]), NMul(v[2], v[2])), NMul(v[3], v[3])))
  IN  IF len # NaN /\ len > 0
      THEN << NDiv(v[1], len), NDiv(v[2], len), NDiv(v[3], len) >>
      ELSE << 0, 0, 0 >>

----------------------------------------------------------------------------
(* Text lines.  A line is the record of its first token (type), of the     *)
(* name that follows it (newmtl, usemtl; "" when there is none) and of the  *)
(* numeric tokens that follow it; BadToken is a token that is no number.    *)
(* A numeric token holds its fixed-point value: parseFloat returns it,      *)
(* parseInt its integer part.                                               *)

BadToken == -888888888

Line(type, name, nums) == [type |-> type, name |-> name, nums |-> nums]

parseFloat(tok) == IF tok = BadToken THEN NaN ELSE tok
parseInt(tok) == IF tok = BadToken THEN NaN ELSE TruncDiv(tok, One)

----------------------------------------------------------------------------
(* mtlParser.ts: parseMtl *)

EmptyMap == << >>
MapSet(m, k, v) == [x \in (DOMAIN m) \cup {k} |-> IF x = k THEN v ELSE m[x]]

RECURSIVE parseMtlFrom(_, _, _, _)
parseMtlFrom(lines, i, materials, currentMaterial) ==
  IF i > Len(lines) THEN materials
  ELSE LET line == lines[i]
       IN  CASE line.type = "newmtl" ->
                  IF line.name # ""
                  THEN parseMtlFrom(lines, i + 1,
                                    MapSet(materials, line.name, [kd |-> None]),
                                    line.name)
                  ELSE parseMtlFrom(lines, i + 1, materials, currentMaterial)
             [] line.type = "Kd" ->
                  IF currentMaterial # "" /\ Len(line.nums) >= 3
                  THEN parseMtlFrom(lines, i + 1,
                         MapSet(materials, currentMaterial,
                                [kd |-> Some(<< parseFloat(line.nums[1]),
                                                parseFloat(line.nums[2]),
                                                parseFloat(line.nums[3]) >>)]),
                         currentMaterial)
                  ELSE parseMtlFrom(lines, i + 1, materials, currentMaterial)
             [] OTHER -> parseMtlFrom(lines, i + 1, materials, currentMaterial)

parseMtl(mtlLines) == parseMtlFrom(mtlLines, 1, EmptyMap, "")

----------------------------------------------------------------------------
(* objParser.ts: parseObj *)

DefaultGray == << 800, 800, 800 >>

\* a variant that walks the record as a strip: faceIndices[i - 1], faceIndices[i], faceIndices[i + 1]
FanFaces_Strip(faceIndices, material) ==
  [k \in 1..(IF Len(faceIndices) >= 2 THEN Len(faceIndices) - 2 ELSE 0) |->
     [indices |-> << faceIndices[k], faceIndices[k + 1], faceIndices[k + 2] >>,
      material |-> material]]

\* the fan of one face record: faceIndices[0], faceIndices[i], faceIndices[i + 1]
FanFaces(faceIndices, material) ==
  [k \in 1..(IF Len(faceIndices) >= 2 THEN Len(faceIndices) - 2 ELSE 0) |->
     [indices |-> << faceIndices[1], faceIndices[k + 1], faceIndices[k + 2] >>,
      material |-> material]]

\* parseInt(part.split('/')[0], 10) - 1
FaceIndex(tok) == NSub(parseInt(tok), 1)

\* a variant in which the name survives the call made before
InitialMaterialName_Kept == IF otherCalls # << >> THEN "A" ELSE ""

\* let currentMaterialName = null
InitialMaterialName == ""

\* a variant in which a face record takes the name of the first usemtl record
ScanObj_FirstDirective(lines, initialMaterialName) ==
  LET vertexLines == SelectSeq(lines, LAMBDA l : l.type = "v")
      faceAt == SelectSeq([i \in 1..Len(lines) |-> i], LAMBDA i : lines[i].type = "f")
      materialAt(i) ==
        LET named == {j \in 1..(i - 1) : lines[j].type = "usemtl"}
        IN  IF named = {} THEN initialMaterialName
            ELSE lines[CHOOSE j \in named : \A k \in named : j <= k].name
  IN  [tempVertices |-> [k \in 1..Len(vertexLines) |->
                           [j \in 1..Len(vertexLines[k].nums) |-> parseFloat(vertexLines[k].nums[j])]],
       faces |-> Flatten([k \in 1..Len(faceAt) |->
                   FanFaces([j \in 1..Len(lines[faceAt[k]].nums) |->
                               FaceIndex(lines[faceAt[k]].nums[j])],
                            materialAt(faceAt[k]))])]

\* the first loop: vertex, usemtl and face records.  A face record takes
\* the name set by the latest usemtl record before it.
ScanObj(lines, initialMaterialName) ==
  LET vertexLines == SelectSeq(lines, LAMBDA l : l.type = "v")
      faceAt == SelectSeq([i \in 1..Len(lines) |-> i], LAMBDA i : lines[i].type = "f")
      materialAt(i) ==
        LET named == {j \in 1..(i - 1) : lines[j].type = "usemtl"}
        IN  IF named = {} THEN initialMaterialName
            ELSE lines[CHOOSE j \in named : \A k \in named : j >= k].name
  IN  [tempVertices |-> [k \in 1..Len(vertexLines) |->
                           [j \in 1..Len(vertexLines[k].nums) |-> parseFloat(vertexLines[k].nums[j])]],
       faces |-> Flatten([k \in 1..Len(faceAt) |->
                   FanFaces([j \in 1..Len(lines[faceAt[k]].nums) |->
                               FaceIndex(lines[faceAt[k]].nums[j])],
                            materialAt(faceAt[k]))])]

\* Array.from(materials.values()).some(m => m.kd)
HasMaterialColors(materials) == \E n \in DOMAIN materials : materials[n].kd # None

\* tempVertices[k] for a 0-based k: defined when 0 <= k < length
VertexDefined(tempVertices, k) == k # NaN /\ k >= 0 /\ k < Len(tempVertices)

FaceSkipped(tempVertices, face) ==
  \/ \E j \in 1..3 : face.indices[j] = NaN
  \/ Len(face.indices) # 3
  \/ \E j \in 1..3 : ~VertexDefined(tempVertices, face.indices[j])

FaceColor(materials, face) ==
  IF face.material # "" /\ face.material \in DOMAIN materials
       /\ materials[face.material].kd # None
  THEN materials[face.material].kd[1]
  ELSE DefaultGray

\* the second loop: de-indexing, flat normals, per-face colors; the faces
\* that are not skipped each append three vertices and three fresh indices
EmitObj(faces, tempVertices, materials, hasMaterialColors) ==
  LET retained == SelectSeq(faces, LAMBDA face : ~FaceSkipped(tempVertices, face))
      corner(face, c) == tempVertices[face.indices[c] + 1]
      normal(face) == normalize(cross(subtract(corner(face, 2), corner(face, 1)),
                                      subtract(corner(face, 3), corner(face, 1))))
  IN  [positions |-> Flatten([k \in 1..(3 * Len(retained)) |->
                        corner(retained[((k - 1) \div 3) + 1], ((k - 1) % 3) + 1)]),
       normals |-> Flatten([k \in 1..(3 * Len(retained)) |-> normal(retained[((k - 1) \div 3) + 1])]),
       colors |-> IF hasMaterialColors
                  THEN Flatten([k \in 1..(3 * Len(retained)) |->
                                  FaceColor(materials, retained[((k - 1) \div 3) + 1])])
                  ELSE << >>,
       indices |-> [k \in 1..(3 * Len(retained)) |-> k - 1]]

Geometry(positions, normals, indices, colors, uvs, texture, primitives) ==
  [positions |-> positions, normals |-> normals, indices |-> indices,
   colors |-> colors, uvs |-> uvs, texture |-> texture, primitives |-> primitives]

\* the locals of a call and the Geometry it returns
parseObjRun(objLines, mtl) ==
  LET materials == IF mtl # None /\ mtl[1] # << >> THEN parseMtl(mtl[1]) ELSE EmptyMap
      scan == ScanObj(objLines, InitialMaterialName)
      hasMaterialColors == HasMaterialColors(materials)
      out == EmitObj(scan.faces, scan.tempVertices, materials, hasMaterialColors)
  IN  [after |-> 0,
       faces |-> scan.faces,
       tempVertices |-> scan.tempVertices,
       geometry |-> Geometry(ToFloat32Array(out.positions),
                             ToFloat32Array(out.normals),
                             ToUint16Array(out.indices),
                             IF hasMaterialColors THEN Some(ToFloat32Array(out.colors))
                                                  ELSE None,
                             None, None, None)]

parseObj(objLines, mtl) == parseObjRun(objLines, mtl).geometry

\* the function has no throw statement and none of its steps throws on a
\* text: an undefined vertex is tested before it is used
parseObjOutcome(objLines, mtl) ==
  [ok |-> TRUE, error |-> "", data |-> parseObj(objLines, mtl)]

----------------------------------------------------------------------------
(* geometry.ts: the procedural generators (the revision that emits UVs). *)

\* a table of signs scaled by s
Scaled(s, signs) == [i \in 1..Len(signs) |-> signs[i] * s]

createCube(size) ==
  LET s == size \div 2
  IN  Geometry(
        Scaled(s, << -1, -1, 1, 1, -1, 1, 1, 1, 1, -1, 1, 1,
                     -1, -1, -1, -1, 1, -1, 1, 1, -1, 1, -1, -1,
                     -1, 1, -1, -1, 1, 1, 1, 1, 1, 1, 1, -1,
                     -1, -1, -1, 1, -1, -1, 1, -1, 1, -1, -1, 1,
                     1, -1, -1, 1, 1, -1, 1, 1, 1, 1, -1, 1,
                     -1, -1, -1, -1, -1, 1, -1, 1, 1, -1, 1, -1 >>),
        Scaled(One, << 0, 0, 1, 0, 0, 1, 0, 0, 1, 0, 0, 1,
                       0, 0, -1, 0, 0, -1, 0, 0, -1, 0, 0, -1,
                       0, 1, 0, 0, 1, 0, 0, 1, 0, 0, 1, 0,
                       0, -1, 0, 0, -1, 0, 0, -1, 0, 0, -1, 0,
                       1, 0, 0, 1, 0, 0, 1, 0, 0, 1, 0, 0,
                       -1, 0, 0, -1, 0, 0, -1, 0, 0, -1, 0, 0 >>),
        << 0, 1, 2, 0, 2, 3,
           4, 5, 6, 4, 6, 7,
           8, 9, 10, 8, 10, 11,
           12, 13, 14, 12, 14, 15,
           16, 17, 18, 16, 18, 19,
           20, 21, 22, 20, 22, 23 >>,
        None,
        Some(Scaled(One, << 0, 0, 1, 0, 1, 1, 0, 1,
                            1, 0, 0, 0, 0, 1, 1, 1,
                            0, 1, 0, 0, 1, 0, 1, 1,
                            0, 0, 1, 0, 1, 1, 0, 1,
                            0, 0, 1, 0, 1, 1, 0, 1,
                            0, 0, 1, 0, 1, 1, 0, 1 >>)),
        None, None)

createPyramid(baseSize, height) ==
  LET s == baseSize \div 2
      h == height \div 2
  IN  Geometry(
        << -s, -h, s, s, -h, s, s, -h, -s, -s, -h, -s, 0, h, 0 >>,
        Scaled(One, << 0, -1, 0, 0, -1, 0, 0, -1, 0, 0, -1, 0, 0, 1, 0 >>),
        << 0, 1, 2, 0, 2, 3, 0, 1, 4, 1, 2, 4, 2, 3, 4, 3, 0, 4 >>,
        None,
        Some(<< 0, 0, One, 0, One, One, 0, One, One \div 2, One \div 2 >>),
        None, None)

\* Math.sin and Math.cos of an angle given in degrees, a multiple of 15
SinTable == << 0, 259, 500, 707, 866, 966, 1000 >>
SinDeg(d) ==
  LET a == d % 360
      q == IF a <= 90 THEN a ELSE IF a <= 180 THEN 180 - a
           ELSE IF a <= 270 THEN a - 180 ELSE 360 - a
  IN  (IF a <= 180 THEN 1 ELSE -1) * SinTable[(q \div 15) + 1]
CosDeg(d) == SinDeg(d + 90)

\* a variant whose second row starts sectorCount slots after the first
createSphere_NarrowRows(radius, sectorCount, stackCount) ==
  LET cols == sectorCount + 1
      nVerts == (stackCount + 1) * cols
      stackOf(k) == (k - 1) \div cols
      sectorOf(k) == (k - 1) % cols
      sinStack(k) == SinDeg((180 \div stackCount) * stackOf(k))
      cosStack(k) == CosDeg((180 \div stackCount) * stackOf(k))
      sinSector(k) == SinDeg((360 \div sectorCount) * sectorOf(k))
      cosSector(k) == CosDeg((360 \div sectorCount) * sectorOf(k))
      x(k) == NMul(NMul(radius, sinStack(k)), cosSector(k))
      y(k) == NMul(radius, cosStack(k))
      z(k) == NMul(NMul(radius, sinStack(k)), sinSector(k))
      first(c) == ((c - 1) \div sectorCount) * cols + ((c - 1) % sectorCount)
      second(c) == first(c) + sectorCount
      cell(c) == << first(c), second(c), first(c) + 1,
                    second(c), second(c) + 1, first(c) + 1 >>
  IN  Geometry(
        [i \in 1..(3 * nVerts) |->
           LET k == ((i - 1) \div 3) + 1
           IN  CASE (i - 1) % 3 = 0 -> x(k) [] (i - 1) % 3 = 1 -> y(k) [] OTHER -> z(k)],
        [i \in 1..(3 * nVerts) |->
           LET k == ((i - 1) \div 3) + 1
           IN  CASE (i - 1) % 3 = 0 -> NDiv(x(k), radius)
                 [] (i - 1) % 3 = 1 -> NDiv(y(k), radius)
                 [] OTHER -> NDiv(z(k), radius)],
        ToUint16Array([i \in 1..(6 * stackCount * sectorCount) |->
                         cell(((i - 1) \div 6) + 1)[((i - 1) % 6) + 1]]),
        None,
        Some([i \in 1..(2 * nVerts) |->
                LET k == ((i - 1) \div 2) + 1
                IN  IF (i - 1) % 2 = 0
                    THEN One - NDiv(sectorOf(k) * One, sectorCount * One)
                    ELSE One - NDiv(stackOf(k) * One, stackCount * One)]),
        None, None)

createSphere(radius, sectorCount, stackCount) ==
  LET cols == sectorCount + 1
      nVerts == (stackCount + 1) * cols
      stackOf(k) == (k - 1) \div cols
      sectorOf(k) == (k - 1) % cols
      sinStack(k) == SinDeg((180 \div stackCount) * stackOf(k))
      cosStack(k) == CosDeg((180 \div stackCount) * stackOf(k))
      sinSector(k) == SinDeg((360 \div sectorCount) * sectorOf(k))
      cosSector(k) == CosDeg((360 \div sectorCount) * sectorOf(k))
      x(k) == NMul(NMul(radius, sinStack(k)), cosSector(k))
      y(k) == NMul(radius, cosStack(k))
      z(k) == NMul(NMul(radius, sinStack(k)), sinSector(k))
      first(c) == ((c - 1) \div sectorCount) * cols + ((c - 1) % sectorCount)
      second(c) == first(c) + sectorCount + 1
      cell(c) == << first(c), second(c), first(c) + 1,
                    second(c), second(c) + 1, first(c) + 1 >>
  IN  Geometry(
        [i \in 1..(3 * nVerts) |->
           LET k == ((i - 1) \div 3) + 1
           IN  CASE (i - 1) % 3 = 0 -> x(k) [] (i - 1) % 3 = 1 -> y(k) [] OTHER -> z(k)],
        [i \in 1..(3 * nVerts) |->
           LET k == ((i - 1) \div 3) + 1
           IN  CASE (i - 1) % 3 = 0 -> NDiv(x(k), radius)
                 [] (i - 1) % 3 = 1 -> NDiv(y(k), radius)
                 [] OTHER -> NDiv(z(k), radius)],
        ToUint16Array([i \in 1..(6 * stackCount * sectorCount) |->
                         cell(((i - 1) \div 6) + 1)[((i - 1) % 6) + 1]]),
        None,
        Some([i \in 1..(2 * nVerts) |->
                LET k == ((i - 1) \div 2) + 1
                IN  IF (i - 1) % 2 = 0
                    THEN One - NDiv(sectorOf(k) * One, sectorCount * One)
                    ELSE One - NDiv(stackOf(k) * One, stackCount * One)]),
        None, None)

----------------------------------------------------------------------------
(* Typed arrays over an ArrayBuffer: little-endian bytes.  A Float32 holds  *)
(* the fixed-point value as a 32-bit two's-complement word.                 *)

\* DataView.setUint32(offset, x, true), for 0 <= x < 2^31
U32Bytes(x) == << x % 256, (x \div 256) % 256, (x \div 65536) % 256, x \div 16777216 >>

Float32Bytes(x) ==
  IF x >= 0 THEN U32Bytes(x)
  ELSE LET u == (x + 2147483647) + 1
       IN  << u % 256, (u \div 256) % 256, (u \div 65536) % 256, (u \div 16777216) + 128 >>

\* new Uint8Array(typedArray.buffer)
BytesOf(values, size) ==
  [i \in 1..(size * Len(values)) |->
     LET x == values[((i - 1) \div size) + 1]
     IN  IF size = 4 THEN Float32Bytes(x)[((i - 1) % size) + 1]
         ELSE IF (i - 1) % size = 0 THEN x % 256 ELSE (x \div 256) % 256]

\* DataView.getUint32(offset, true); offset counts from 0.  A word above
\* 2^31 - 1 is read as 2^31 - 1.
GetUint32(b, offset) ==
  IF b[offset + 4] >= 128 THEN 2147483647
  ELSE b[offset + 1] + 256 * b[offset + 2] + 65536 * b[offset + 3] + 16777216 * b[offset + 4]

\* arrayBuffer.slice(begin, end): a negative end counts from the end of the
\* buffer, both ends are clamped to it
Slice(b, begin, end) ==
  LET rel(x) == IF x < 0 THEN (IF Len(b) + x < 0 THEN 0 ELSE Len(b) + x)
                ELSE IF x > Len(b) THEN Len(b) ELSE x
      lo == rel(begin)
      hi == IF rel(end) < lo THEN lo ELSE rel(end)
  IN  [i \in 1..(hi - lo) |-> b[lo + i]]

\* the elements of a typed array over the bytes, as numbers: floats as they
\* are, integers scaled to the fixed-point unit
TypedArray(bytes, componentType) ==
  LET size == CASE componentType \in {5120, 5121} -> 1
                [] componentType \in {5122, 5123} -> 2
                [] OTHER -> 4
      word(k) == LET at == size * (k - 1)
                 IN  IF size = 1 THEN bytes[at + 1]
                     ELSE IF size = 2 THEN bytes[at + 1] + 256 * bytes[at + 2]
                     ELSE bytes[at + 1] + 256 * bytes[at + 2] + 65536 * bytes[at + 3]
                            + 16777216 * (bytes[at + 4] % 128)
      value(w, negative) == CASE componentType = 5120 -> (IF w >= 128 THEN w - 256 ELSE w) * One
                              [] componentType = 5122 -> (IF w >= 32768 THEN w - 65536 ELSE w) * One
                              [] componentType = 5126 -> IF negative THEN (w - 2147483647) - 1 ELSE w
                              [] OTHER -> w * One
  IN  [k \in 1..(Len(bytes) \div size) |-> value(word(k), bytes[size * k] >= 128)]

----------------------------------------------------------------------------
(* JSON.stringify / TextEncoder and TextDecoder / JSON.parse of a glTF      *)
(* document.  The text is the document's tables written in a fixed order,   *)
(* each as its row count followed by its rows, every number as NumberWidth  *)
(* printable characters; optional members are written as 0 when absent.     *)

Infinity == 999999998
NumberWidth == 3
NumberBase == 90
FirstChar == 33
NumberZero == 364500
JsonWhitespace == {32, 9, 10, 13}

\* texture strings are numbered: those below FirstPlainUri are data URIs
FirstPlainUri == 10

TypeNames == << "SCALAR", "VEC2", "VEC3", "VEC4" >>
AlphaModes == << "OPAQUE", "MASK", "BLEND" >>
CodeOf(names, o) ==
  IF o = None \/ ~(\E k \in 1..Len(names) : names[k] = o[1]) THEN 0
  ELSE CHOOSE k \in 1..Len(names) : names[k] = o[1]
NameOf(names, k) == IF k \in 1..Len(names) THEN Some(names[k]) ELSE None

OptNum(o) == IF o = None THEN 0 ELSE o[1] + 1
NumOpt(n) == IF n = 0 \/ n = NaN THEN None ELSE Some(n - 1)
OptVec(o, k) == IF o = None THEN [i \in 1..(k + 1) |-> 0] ELSE << 1 >> \o o[1]
VecOpt(row, at, k) == IF row[at] = 0 THEN None ELSE Some([i \in 1..k |-> row[at + i]])

\* JSON has no NaN and no Infinity: both are written as null
EncodeNumber(x) ==
  LET u == IF x = NaN \/ x = Infinity \/ x = -Infinity THEN 0 ELSE x + NumberZero
  IN  << FirstChar + (u \div (NumberBase * NumberBase)),
         FirstChar + ((u \div NumberBase) % NumberBase),
         FirstChar + (u % NumberBase) >>

DecodeNumber(b, at) ==
  LET u == (b[at] - FirstChar) * NumberBase * NumberBase
             + (b[at + 1] - FirstChar) * NumberBase + (b[at + 2] - FirstChar)
  IN  IF u = 0 THEN NaN ELSE u - NumberZero

TableText(rows) == << Len(rows) >> \o Flatten(rows)

\* the widths of the rows of the tables, in the order they are written
RowWidths == << 1, 13, 1, 7, 13, 5, 8, 2, 2, 2 >>

DocRows(doc) ==
  << [i \in 1..Len(doc.scenes[1].nodes) |-> << doc.scenes[1].nodes[i] >>],
     [i \in 1..Len(doc.nodes) |->
        LET n == doc.nodes[i]
        IN  << n.mesh >> \o n.translation \o OptVec(n.rotation, 4) \o OptVec(n.scale, 3)],
     [i \in 1..Len(doc.meshes) |-> << Len(doc.meshes[i].primitives) >>],
     Flatten([i \in 1..Len(doc.meshes) |->
        [j \in 1..Len(doc.meshes[i].primitives) |->
           LET p == doc.meshes[i].primitives[j]
           IN  << OptNum(p.attributes.POSITION), OptNum(p.attributes.NORMAL),
                  OptNum(p.attributes.COLOR_0), OptNum(p.attributes.TEXCOORD_0),
                  OptNum(p.indices), p.mode, OptNum(p.material) >>]]),
     [i \in 1..Len(doc.accessors) |->
        LET a == doc.accessors[i]
        IN  << a.bufferView, a.byteOffset, a.componentType, a.count,
               CodeOf(TypeNames, Some(a.type)) >> \o OptVec(a.min, 3) \o OptVec(a.max, 3)],
     [i \in 1..Len(doc.bufferViews) |->
        LET v == doc.bufferViews[i]
        IN  << v.buffer, v.byteOffset, v.byteLength, OptNum(v.target), OptNum(v.byteStride) >>],
     [i \in 1..Len(doc.materials) |->
        LET m == doc.materials[i]
        IN  OptVec(m.baseColorFactor, 4) \o
            << OptNum(m.baseColorTexture), CodeOf(AlphaModes, m.alphaMode),
               IF m.doubleSided THEN 1 ELSE 0 >>],
     [i \in 1..Len(doc.textures) |-> << doc.textures[i].sampler, OptNum(doc.textures[i].source) >>],
     [i \in 1..Len(doc.images) |-> << OptNum(doc.images[i].uri), OptNum(doc.images[i].bufferView) >>],
     [i \in 1..Len(doc.buffers) |-> << doc.buffers[i].byteLength, OptNum(doc.buffers[i].uri) >>] >>

\* new TextEncoder().encode(JSON.stringify(gltf))
JsonStringify(doc) ==
  LET Tables(rows) == Flatten([t \in 1..Len(rows) |-> TableText(rows[t])])
      Text(nums) == [i \in 1..(NumberWidth * Len(nums)) |->
                       EncodeNumber(nums[((i - 1) \div NumberWidth) + 1])[((i - 1) % NumberWidth) + 1]]
  IN  Text(Tables(DocRows(doc)))

RECURSIVE TableStartsFrom(_, _, _)
\* the position of each table's row count; << >> when the text is malformed
TableStartsFrom(nums, t, starts) ==
  IF t > Len(RowWidths) THEN starts
  ELSE LET at == starts[Len(starts)]
       IN  IF at > Len(nums) \/ nums[at] = NaN \/ nums[at] < 0 THEN << >>
           ELSE TableStartsFrom(nums, t + 1, Append(starts, at + 1 + nums[at] * RowWidths[t]))

TableRows(nums, starts, t) ==
  [r \in 1..nums[starts[t]] |->
     [c \in 1..RowWidths[t] |-> nums[starts[t] + (r - 1) * RowWidths[t] + c]]]

RECURSIVE SumFirst(_, _)
SumFirst(rows, k) == IF k = 0 THEN 0 ELSE rows[k][1] + SumFirst(rows, k - 1)

DocOfRows(rows) ==
  [scenes |-> << [nodes |-> [i \in 1..Len(rows[1]) |-> rows[1][i][1]]] >>,
   nodes |-> [i \in 1..Len(rows[2]) |->
      LET r == rows[2][i]
      IN  [mesh |-> r[1], translation |-> << r[2], r[3], r[4] >>,
           rotation |-> VecOpt(r, 5, 4), scale |-> VecOpt(r, 10, 3)]],
   meshes |-> [i \in 1..Len(rows[3]) |->
      [primitives |-> [j \in 1..rows[3][i][1] |->
         LET r == rows[4][SumFirst(rows[3], i - 1) + j]
         IN  [attributes |-> [POSITION |-> NumOpt(r[1]), NORMAL |-> NumOpt(r[2]),
                              COLOR_0 |-> NumOpt(r[3]), TEXCOORD_0 |-> NumOpt(r[4])],
              indices |-> NumOpt(r[5]), mode |-> r[6], material |-> NumOpt(r[7])]]]],
   accessors |-> [i \in 1..Len(rows[5]) |->
      LET r == rows[5][i]
      IN  [bufferView |-> r[1], byteOffset |-> r[2], componentType |-> r[3], count |-> r[4],
           type |-> IF NameOf(TypeNames, r[5]) = None THEN "" ELSE NameOf(TypeNames, r[5])[1],
           min |-> VecOpt(r, 6, 3), max |-> VecOpt(r, 10, 3)]],
   bufferViews |-> [i \in 1..Len(rows[6]) |->
      LET r == rows[6][i]
      IN  [buffer |-> r[1], byteOffset |-> r[2], byteLength |-> r[3],
           target |-> NumOpt(r[4]), byteStride |-> NumOpt(r[5])]],
   materials |-> [i \in 1..Len(rows[7]) |->
      LET r == rows[7][i]
      IN  [baseColorFactor |-> VecOpt(r, 1, 4), baseColorTexture |-> NumOpt(r[6]),
           alphaMode |-> NameOf(AlphaModes, r[7]), doubleSided |-> r[8] = 1]],
   textures |-> [i \in 1..Len(rows[8]) |-> [sampler |-> rows[8][i][1], source |-> NumOpt(rows[8][i][2])]],
   images |-> [i \in 1..Len(rows[9]) |-> [uri |-> NumOpt(rows[9][i][1]), bufferView |-> NumOpt(rows[9][i][2])]],
   buffers |-> [i \in 1..Len(rows[10]) |-> [byteLength |-> rows[10][i][1], uri |-> NumOpt(rows[10][i][2])]]]

\* JSON.parse(new TextDecoder('utf-8').decode(bytes)): None is a SyntaxError
JsonParse(b) ==
  LET text == {i \in 1..Len(b) : b[i] \notin JsonWhitespace}
  IN  IF text = {} THEN None
      ELSE
        LET lo == CHOOSE i \in text : \A j \in text : i <= j
            hi == CHOOSE i \in text : \A j \in text : i >= j
            n == hi - lo + 1
        IN  IF n % NumberWidth # 0
               \/ \E i \in lo..hi : b[i] < FirstChar \/ b[i] >= FirstChar + NumberBase
            THEN None
            ELSE
              LET nums == [k \in 1..(n \div NumberWidth) |->
                             DecodeNumber(b, lo + NumberWidth * (k - 1))]
                  starts == TableStartsFrom(nums, 1, << 1 >>)
              IN  IF starts = << >> \/ starts[Len(starts)] # Len(nums) + 1 THEN None
                  ELSE
                    LET rows == [t \in 1..Len(RowWidths) |-> TableRows(nums, starts, t)]
                    IN  IF (\E i \in 1..Len(rows[3]) : rows[3][i][1] = NaN \/ rows[3][i][1] < 0)
                           \/ SumFirst(rows[3], Len(rows[3])) # Len(rows[4])
                        THEN None
                        ELSE Some(DocOfRows(rows))

----------------------------------------------------------------------------
(* gltfBuilder.ts: generateGltfParts, buildGltf, padBuffer, buildGlb *)

Shape(geometry, translation, rotation, scale, color) ==
  [geometry |-> geometry, translation |-> translation, rotation |-> rotation,
   scale |-> scale, color |-> color]

GeometryPrimitive(indicesOffset, indicesCount, texture, color) ==
  [indicesOffset |-> indicesOffset, indicesCount |-> indicesCount,
   texture |-> texture, color |-> color]

\* the elements of an optional array ("colors ? colors.length : 0")
Elems(o) == IF o = None THEN << >> ELSE o[1]

MinOf(positions, axis) ==
  LET xs == {At(positions, i + axis) : i \in {j \in 1..Len(positions) : j % 3 = 1}}
  IN  IF xs = {} THEN Infinity
      ELSE IF NaN \in xs THEN NaN ELSE CHOOSE x \in xs : \A y \in xs : x <= y
MaxOf(positions, axis) ==
  LET xs == {At(positions, i + axis) : i \in {j \in 1..Len(positions) : j % 3 = 1}}
  IN  IF xs = {} THEN -Infinity
      ELSE IF NaN \in xs THEN NaN ELSE CHOOSE x \in xs : \A y \in xs : x >= y

White == << One, One, One, One >>
DefaultColor == << 800, 800, 800, One >>

Material(factor, texture, alphaMode) ==
  [baseColorFactor |-> Some(factor), baseColorTexture |-> texture,
   alphaMode |-> alphaMode, doubleSided |-> TRUE]

\* a variant that keeps one material for all flat colors
getMaterialIndex_OneFlat(st, shape, isV4Colors, tex, color) ==
  LET Keyed(st1, matKey, material) ==
        IF matKey \in DOMAIN st1.materialMap
        THEN [st |-> st1, index |-> st1.materialMap[matKey]]
        ELSE [st |-> [st1 EXCEPT !.materials = Append(@, material),
                                 !.materialMap = MapSet(@, matKey, Len(st1.materials))],
              index |-> Len(st1.materials)]
      Textured(st1) ==
        Keyed(st1, << "TEX", st1.textureMap[tex[1]] >>,
              Material(IF color # None THEN color[1] ELSE White,
                       Some(st1.textureMap[tex[1]]), Some("MASK")))
  IN  IF tex # None
      THEN Textured(IF tex[1] \in DOMAIN st.textureMap THEN st
                    ELSE [st EXCEPT
                            !.images = Append(@, [uri |-> tex, bufferView |-> None]),
                            !.textures = Append(@, [sampler |-> 0, source |-> Some(Len(st.images))]),
                            !.textureMap = MapSet(@, tex[1], Len(st.textures))])
      ELSE IF Len(Elems(shape.geometry.colors)) > 0
      THEN Keyed(st, << "##VERTEX_COLORS##" >>,
                 Material(White, None, Some(IF isV4Colors THEN "BLEND" ELSE "OPAQUE")))
      ELSE Keyed(st, << "COLOR" >>,
                 Material(IF color # None THEN color[1]
                          ELSE IF shape.color # None THEN shape.color[1] ELSE DefaultColor,
                          None, None))

\* st: the arrays and the two maps of one generateGltfParts call
getMaterialIndex(st, shape, isV4Colors, tex, color) ==
  IF tex # None THEN
    LET st1 == IF tex[1] \in DOMAIN st.textureMap THEN st
               ELSE [st EXCEPT
                       !.images = Append(@, [uri |-> tex, bufferView |-> None]),
                       !.textures = Append(@, [sampler |-> 0, source |-> Some(Len(st.images))]),
                       !.textureMap = MapSet(@, tex[1], Len(st.textures))]
        textureIndex == st1.textureMap[tex[1]]
        matKey == << "TEX", textureIndex >>
    IN  IF matKey \in DOMAIN st1.materialMap
        THEN [st |-> st1, index |-> st1.materialMap[matKey]]
        ELSE [st |-> [st1 EXCEPT
                        !.materials = Append(@, Material(IF color # None THEN color[1] ELSE White,
                                                         Some(textureIndex), Some("MASK"))),
                        !.materialMap = MapSet(@, matKey, Len(st1.materials))],
              index |-> Len(st1.materials)]
  ELSE IF Len(Elems(shape.geometry.colors)) > 0 THEN
    LET matKey == << "##VERTEX_COLORS##" >>
    IN  IF matKey \in DOMAIN st.materialMap
        THEN [st |-> st, index |-> st.materialMap[matKey]]
        ELSE [st |-> [st EXCEPT
                        !.materials = Append(@, Material(White, None,
                                         Some(IF isV4Colors THEN "BLEND" ELSE "OPAQUE"))),
                        !.materialMap = MapSet(@, matKey, Len(st.materials))],
              index |-> Len(st.materials)]
  ELSE
    LET c == IF color # None THEN color[1]
             ELSE IF shape.color # None THEN shape.color[1] ELSE DefaultColor
        matKey == << "COLOR" >> \o c
    IN  IF matKey \in DOMAIN st.materialMap
        THEN [st |-> st, index |-> st.materialMap[matKey]]
        ELSE [st |-> [st EXCEPT
                        !.materials = Append(@, Material(c, None, None)),
                        !.materialMap = MapSet(@, matKey, Len(st.materials))],
              index |-> Len(st.materials)]

\* a variant that records an offset in 16-bit elements
Accessor_ElementOffset(bufferView, byteOffset, componentType, count, type, min, max) ==
  [bufferView |-> bufferView, byteOffset |-> byteOffset \div 2, componentType |-> componentType,
   count |-> count, type |-> type, min |-> min, max |-> max]

Accessor(bufferView, byteOffset, componentType, count, type, min, max) ==
  [bufferView |-> bufferView, byteOffset |-> byteOffset, componentType |-> componentType,
   count |-> count, type |-> type, min |-> min, max |-> max]

RECURSIVE PrimitiveLoop(_, _, _, _, _, _, _)
\* "for (const prim of primitives)": one index accessor and one primitive per range
PrimitiveLoop(st, shape, isV4Colors, attributes, indexBufferViewIdx, k, meshPrimitives) ==
  LET primitives == Elems(shape.geometry.primitives)
  IN  IF k > Len(primitives) THEN [st |-> st, meshPrimitives |-> meshPrimitives]
      ELSE
        LET prim == primitives[k]
            Rest(m) ==
              PrimitiveLoop([m.st EXCEPT !.accessors = Append(@,
                               Accessor(indexBufferViewIdx, (st.iElementOffset + prim.indicesOffset) * 2,
                                        5123, prim.indicesCount, "SCALAR", None, None))],
                            shape, isV4Colors, attributes, indexBufferViewIdx, k + 1,
                            Append(meshPrimitives,
                                   [attributes |-> attributes, indices |-> Some(Len(m.st.accessors)),
                                    mode |-> 4, material |-> Some(m.index)]))
        IN  Rest(getMaterialIndex(st, shape, isV4Colors, prim.texture, prim.color))

\* the body of "shapes.forEach((shape, shapeIndex) => ...)"; the element counts
\* of the serialized arrays are whole multiples of their component counts
ShapeStep(st, shape, shapeIndex, uvBufferViewIdx, indexBufferViewIdx) ==
  LET g == shape.geometry
      colors == Elems(g.colors)
      uvs == Elems(g.uvs)
      numVertices3 == Len(g.positions)
      isV4Colors == g.colors # None /\ numVertices3 > 0 /\ 3 * Len(colors) = 4 * numVertices3
      posAccessorIdx == Len(st.accessors)
      normAccessorIdx == posAccessorIdx + 1
      hasColor == Len(colors) > 0
      hasUv == Len(uvs) > 0 /\ uvBufferViewIdx # -1
      colorAccessorIdx == IF hasColor THEN normAccessorIdx + 1 ELSE -1
      uvAccessorIdx == IF hasUv THEN normAccessorIdx + 1 + (IF hasColor THEN 1 ELSE 0) ELSE -1
      accs == << Accessor(0, st.pElementOffset * 4, 5126, Len(g.positions) \div 3,
                          "VEC3",
                          Some(<< MinOf(g.positions, 0), MinOf(g.positions, 1), MinOf(g.positions, 2) >>),
                          Some(<< MaxOf(g.positions, 0), MaxOf(g.positions, 1), MaxOf(g.positions, 2) >>)),
                 Accessor(1, st.nElementOffset * 4, 5126, Len(g.normals) \div 3,
                          "VEC3", None, None) >>
              \o (IF hasColor
                  THEN << Accessor(2, st.cElementOffset * 4, 5126,
                                   Len(colors) \div (IF isV4Colors THEN 4 ELSE 3),
                                   IF isV4Colors THEN "VEC4" ELSE "VEC3", None, None) >>
                  ELSE << >>)
              \o (IF hasUv
                  THEN << Accessor(uvBufferViewIdx, st.uvElementOffset * 4, 5126,
                                   Len(uvs) \div 2, "VEC2", None, None) >>
                  ELSE << >>)
      st1 == [st EXCEPT !.accessors = @ \o accs]
      attributes == [POSITION |-> Some(posAccessorIdx), NORMAL |-> Some(normAccessorIdx),
                     COLOR_0 |-> IF hasColor THEN Some(colorAccessorIdx) ELSE None,
                     TEXCOORD_0 |-> IF hasUv THEN Some(uvAccessorIdx) ELSE None]
      multi == PrimitiveLoop(st1, shape, isV4Colors, attributes, indexBufferViewIdx, 1, << >>)
      single(m) == [st |-> [m.st EXCEPT !.accessors = Append(@,
                               Accessor(indexBufferViewIdx, st.iElementOffset * 2, 5123,
                                        Len(g.indices), "SCALAR", None, None))],
                    meshPrimitives |-> << [attributes |-> attributes,
                                           indices |-> Some(Len(m.st.accessors)),
                                           mode |-> 4, material |-> Some(m.index)] >>]
      Pushed(r) ==
        [r.st EXCEPT
           !.meshes = Append(@, [primitives |-> r.meshPrimitives]),
           !.nodes = Append(@, [mesh |-> shapeIndex, translation |-> shape.translation,
                                rotation |-> shape.rotation, scale |-> shape.scale]),
           !.pElementOffset = @ + Len(g.positions),
           !.nElementOffset = @ + Len(g.normals),
           !.cElementOffset = @ + Len(colors),
           !.uvElementOffset = @ + Len(uvs),
           !.iElementOffset = @ + Len(g.indices)]
  IN  Pushed(IF Len(Elems(g.primitives)) > 0 THEN multi
             ELSE single(getMaterialIndex(st1, shape, isV4Colors, g.texture, None)))

RECURSIVE ShapeLoop(_, _, _, _, _)
ShapeLoop(st, shapes, k, uvBufferViewIdx, indexBufferViewIdx) ==
  IF k > Len(shapes) THEN st
  ELSE ShapeLoop(ShapeStep(st, shapes[k], k - 1, uvBufferViewIdx, indexBufferViewIdx),
                 shapes, k + 1, uvBufferViewIdx, indexBufferViewIdx)

\* a variant that records the element count of a view as its length
BufferView_ElementCount(byteOffset, byteLength, target) ==
  [buffer |-> 0, byteOffset |-> byteOffset, byteLength |-> byteLength \div 2,
   target |-> Some(target), byteStride |-> None]

BufferView(byteOffset, byteLength, target) ==
  [buffer |-> 0, byteOffset |-> byteOffset, byteLength |-> byteLength,
   target |-> Some(target), byteStride |-> None]

\* materialMap and textureMap are created empty by every call
generateGltfParts(shapes) ==
  LET allPositions == ToFloat32Array(Flatten([i \in 1..Len(shapes) |-> shapes[i].geometry.positions]))
      allNormals == ToFloat32Array(Flatten([i \in 1..Len(shapes) |-> shapes[i].geometry.normals]))
      allColors == ToFloat32Array(Flatten([i \in 1..Len(shapes) |-> Elems(shapes[i].geometry.colors)]))
      allUVs == ToFloat32Array(Flatten([i \in 1..Len(shapes) |-> Elems(shapes[i].geometry.uvs)]))
      allIndices == ToUint16Array(Flatten([i \in 1..Len(shapes) |-> shapes[i].geometry.indices]))
      posLen == 4 * Len(allPositions)
      normLen == 4 * Len(allNormals)
      colorLen == 4 * Len(allColors)
      uvLen == 4 * Len(allUVs)
      indexLen == 2 * Len(allIndices)
      totalByteLength == posLen + normLen + colorLen + uvLen + indexLen
      bufferViews ==
        << BufferView(0, posLen, 34962), BufferView(posLen, normLen, 34962) >>
        \o (IF colorLen > 0 THEN << BufferView(posLen + normLen, colorLen, 34962) >> ELSE << >>)
        \o (IF uvLen > 0 THEN << BufferView(posLen + normLen + colorLen, uvLen, 34962) >> ELSE << >>)
        \o << BufferView(posLen + normLen + colorLen + uvLen, indexLen, 34963) >>
      uvBufferViewIdx == IF uvLen > 0 THEN (IF colorLen > 0 THEN 3 ELSE 2) ELSE -1
      indexBufferViewIdx == Len(bufferViews) - 1
      Parts(st) ==
        [gltf |-> [scenes |-> << [nodes |-> [i \in 1..Len(st.nodes) |-> i - 1]] >>,
                   nodes |-> st.nodes, meshes |-> st.meshes, accessors |-> st.accessors,
                   bufferViews |-> bufferViews, materials |-> st.materials,
                   textures |-> st.textures, images |-> st.images,
                   buffers |-> << [byteLength |-> totalByteLength, uri |-> None] >>],
         combinedBuffer |-> BytesOf(allPositions, 4) \o BytesOf(allNormals, 4)
                             \o BytesOf(allColors, 4) \o BytesOf(allUVs, 4)
                             \o BytesOf(allIndices, 2)]
  IN  Parts(ShapeLoop([accessors |-> << >>, meshes |-> << >>, nodes |-> << >>,
                       materials |-> << >>, textures |-> << >>, images |-> << >>,
                       materialMap |-> EmptyMap, textureMap |-> EmptyMap,
                       pElementOffset |-> 0, nElementOffset |-> 0, cElementOffset |-> 0,
                       uvElementOffset |-> 0, iElementOffset |-> 0],
                      shapes, 1, uvBufferViewIdx, indexBufferViewIdx))

\* window.btoa(binary): the characters of the base64 text
arrayBufferToBase64(bytes) ==
  LET byte(i) == IF i <= Len(bytes) THEN bytes[i] ELSE 0
      sextet(k) ==
        LET b0 == byte(3 * (k \div 4) + 1)
            b1 == byte(3 * (k \div 4) + 2)
            b2 == byte(3 * (k \div 4) + 3)
        IN  CASE k % 4 = 0 -> b0 \div 4
              [] k % 4 = 1 -> (b0 % 4) * 16 + (b1 \div 16)
              [] k % 4 = 2 -> (b1 % 16) * 4 + (b2 \div 64)
              [] OTHER -> b2 % 64
      char(x) == IF x < 26 THEN 65 + x ELSE IF x < 52 THEN 71 + x
                 ELSE IF x < 62 THEN x - 4 ELSE IF x = 62 THEN 43 ELSE 47
  IN  [i \in 1..(4 * ((Len(bytes) + 2) \div 3)) |->
         IF 3 * ((i - 1) \div 4) + ((i - 1) % 4) > Len(bytes) THEN 61
         ELSE char(sextet(i - 1))]

\* the document's text followed by the characters of buffers[0].uri
buildGltf(shapes) ==
  LET Text(parts) == JsonStringify([parts.gltf EXCEPT !.buffers[1].uri = Some(0)])
                       \o arrayBufferToBase64(parts.combinedBuffer)
  IN  Text(generateGltfParts(shapes))

\* a variant that appends no padding
padBuffer_NoPadding(buffer, alignment, padWith) == buffer

padBuffer(buffer, alignment, padWith) ==
  LET remainder == Len(buffer) % alignment
  IN  IF remainder = 0 THEN buffer
      ELSE [i \in 1..(Len(buffer) + (alignment - remainder)) |->
              IF i <= Len(buffer) THEN buffer[i] ELSE padWith]

GlbMagic == 1179937895
GlbVersion == 2
ChunkJson == 1313821514
ChunkBin == 5130562

\* a variant whose chunk_length fields hold the payloads' lengths before padding
GlbContainer_PrePadding(jsonBytes, binaryBytes) ==
  LET paddedJsonBytes == padBuffer(jsonBytes, 4, 32)
      paddedBinaryBytes == padBuffer(binaryBytes, 4, 0)
      totalLength == 12 + 8 + Len(paddedJsonBytes)
                       + (IF Len(paddedBinaryBytes) > 0 THEN 8 + Len(paddedBinaryBytes) ELSE 0)
  IN  U32Bytes(GlbMagic) \o U32Bytes(GlbVersion) \o U32Bytes(totalLength)
        \o U32Bytes(Len(jsonBytes)) \o U32Bytes(ChunkJson) \o paddedJsonBytes
        \o (IF Len(paddedBinaryBytes) > 0
            THEN U32Bytes(Len(binaryBytes)) \o U32Bytes(ChunkBin) \o paddedBinaryBytes
            ELSE << >>)

\* the container written by buildGlb for a JSON text and a binary buffer
GlbContainer(jsonBytes, binaryBytes) ==
  LET paddedJsonBytes == padBuffer(jsonBytes, 4, 32)
      paddedBinaryBytes == padBuffer(binaryBytes, 4, 0)
      jsonChunkLength == Len(paddedJsonBytes)
      binaryChunkLength == Len(paddedBinaryBytes)
      totalLength == 12 + 8 + jsonChunkLength
                       + (IF binaryChunkLength > 0 THEN 8 + binaryChunkLength ELSE 0)
  IN  U32Bytes(GlbMagic) \o U32Bytes(GlbVersion) \o U32Bytes(totalLength)
        \o U32Bytes(jsonChunkLength) \o U32Bytes(ChunkJson) \o paddedJsonBytes
        \o (IF binaryChunkLength > 0
            THEN U32Bytes(binaryChunkLength) \o U32Bytes(ChunkBin) \o paddedBinaryBytes
            ELSE << >>)

\* the locals jsonBytes and binaryBytes of a call and the buffer it returns
buildGlbRun(shapes) ==
  LET Run(jsonBytes, binaryBytes) ==
        [jsonBytes |-> jsonBytes, binaryBytes |-> binaryBytes,
         out |-> GlbContainer(jsonBytes, binaryBytes)]
      Written(parts) == Run(JsonStringify(parts.gltf), parts.combinedBuffer)
  IN  Written(generateGltfParts(shapes))

buildGlb(shapes) == buildGlbRun(shapes).out

----------------------------------------------------------------------------
(* glbParser.ts: parseGlb *)

Thrown(message) == [ok |-> FALSE, error |-> message, data |-> << >>]
Returned(data) == [ok |-> TRUE, error |-> "", data |-> data]

ComponentSize(componentType) ==
  CASE componentType \in {5120, 5121} -> 1
    [] componentType \in {5122, 5123} -> 2
    [] componentType \in {5125, 5126} -> 4
    [] OTHER -> 0

getAccessorData(gltf, binaryBuffer, accessorIndex) ==
  IF accessorIndex + 1 \notin 1..Len(gltf.accessors) THEN Thrown("TypeError")
  ELSE
    LET accessor == gltf.accessors[accessorIndex + 1]
    IN  IF accessor.bufferView + 1 \notin 1..Len(gltf.bufferViews) THEN Thrown("TypeError")
        ELSE IF ComponentSize(accessor.componentType) = 0 THEN Thrown("Unsupported component type")
        ELSE
          LET bufferView == gltf.bufferViews[accessor.bufferView + 1]
              size == ComponentSize(accessor.componentType)
              componentCount == IF CodeOf(TypeNames, Some(accessor.type)) = 0 THEN 1
                                ELSE CodeOf(TypeNames, Some(accessor.type))
              totalComponents == accessor.count * componentCount
              byteOffset == bufferView.byteOffset + accessor.byteOffset
              elementSize == componentCount * size
              tight == Slice(binaryBuffer, byteOffset, byteOffset + totalComponents * size)
              strided == [i \in 1..(totalComponents * size) |->
                            LET src == byteOffset + ((i - 1) \div elementSize) * bufferView.byteStride[1]
                                         + ((i - 1) % elementSize)
                            IN  IF src + 1 \in 1..Len(binaryBuffer) THEN binaryBuffer[src + 1] ELSE 0]
          IN  IF bufferView.byteStride = None \/ bufferView.byteStride[1] = 0
                 \/ bufferView.byteStride[1] = elementSize
              THEN IF Len(tight) % size # 0 THEN Thrown("RangeError")
                   ELSE Returned(TypedArray(tight, accessor.componentType))
              ELSE IF totalComponents < 0 THEN Thrown("RangeError")
                   ELSE Returned(TypedArray(strided, accessor.componentType))

\* rawColors[i] / normFactor
Normalized(x, componentType) ==
  IF x = NaN THEN NaN
  ELSE TruncDiv(x, CASE componentType = 5121 -> 255 [] componentType = 5123 -> 65535 [] OTHER -> 1)

\* the texture named by an image: an embedded image is named by its bytes
ImageTexture(gltf, binaryBuffer, image) ==
  IF image.bufferView # None
  THEN IF image.bufferView[1] + 1 \notin 1..Len(gltf.bufferViews) THEN Thrown("TypeError")
       ELSE LET bv == gltf.bufferViews[image.bufferView[1] + 1]
                imgBuffer == Slice(binaryBuffer, bv.byteOffset, bv.byteOffset + bv.byteLength)
            IN  Returned(Some(IF imgBuffer = << >> THEN 0 ELSE imgBuffer[1]))
  ELSE IF image.uri # None /\ image.uri[1] < FirstPlainUri THEN Returned(image.uri)
  ELSE Returned(None)

\* one pass of "for (const primitive of primitives)" for a primitive with POSITION
ReadPrimitive(gltf, binaryBuffer, primitive) ==
  LET attr == primitive.attributes
      Normals(positions) ==
        IF attr.NORMAL # None THEN getAccessorData(gltf, binaryBuffer, attr.NORMAL[1])
        ELSE Returned([i \in 1..Len(positions) |-> 0])
      colAcc == gltf.accessors[attr.COLOR_0[1] + 1]
      srcStride == IF colAcc.type = "VEC4" THEN 4 ELSE IF colAcc.type = "VEC3" THEN 3 ELSE 0
      Colors(vertexCount, rawCol) ==
        IF attr.COLOR_0 = None THEN Returned([i \in 1..(4 * vertexCount) |-> One])
        ELSE IF ~rawCol.ok THEN rawCol
        ELSE Returned([i \in 1..(4 * colAcc.count) |->
               LET v == (i - 1) \div 4
                   c == (i - 1) % 4
               IN  IF c = 3 /\ colAcc.type # "VEC4" THEN One
                   ELSE Normalized(At(rawCol.data, v * srcStride + c + 1), colAcc.componentType)])
      uvAcc == gltf.accessors[attr.TEXCOORD_0[1] + 1]
      Uvs(vertexCount, rawUv) ==
        IF attr.TEXCOORD_0 = None THEN Returned([i \in 1..(2 * vertexCount) |-> 0])
        ELSE IF ~rawUv.ok \/ uvAcc.componentType = 5126 THEN rawUv
        ELSE Returned([i \in 1..(2 * uvAcc.count) |->
                         Normalized(At(rawUv.data, i), uvAcc.componentType)])
      Indices(vertexCount, rawInd) ==
        IF primitive.indices = None THEN Returned(ToUint16Array([i \in 1..vertexCount |-> i - 1]))
        ELSE IF ~rawInd.ok THEN rawInd
        ELSE Returned(ToUint16Array([i \in 1..Len(rawInd.data) |->
                                       TruncDiv(rawInd.data[i], One)]))
      material == IF primitive.material # None
                     /\ primitive.material[1] + 1 \in 1..Len(gltf.materials)
                  THEN Some(gltf.materials[primitive.material[1] + 1]) ELSE None
      texIdx == material[1].baseColorTexture[1]
      imgIdx == gltf.textures[texIdx + 1].source
      tex == IF material = None \/ material[1].baseColorTexture = None
                \/ texIdx + 1 \notin 1..Len(gltf.textures)
                \/ imgIdx = None \/ imgIdx[1] + 1 \notin 1..Len(gltf.images)
             THEN Returned(None)
             ELSE ImageTexture(gltf, binaryBuffer, gltf.images[imgIdx[1] + 1])
      \* steps: pos, norm, col, uv, ind, tex in the order the code computes them
      Outcome(steps) ==
        IF \E k \in 1..Len(steps) : ~steps[k].ok
        THEN steps[CHOOSE k \in 1..Len(steps) : ~steps[k].ok /\ \A j \in 1..(k - 1) : steps[j].ok]
        ELSE Returned([positions |-> steps[1].data, normals |-> steps[2].data,
                       colors |-> steps[3].data, uvs |-> steps[4].data,
                       indices |-> steps[5].data, texture |-> steps[6].data,
                       color |-> IF material = None THEN None ELSE material[1].baseColorFactor])
      Read(pos, vertexCount) ==
        Outcome(<< pos,
                   Normals(pos.data),
                   Colors(vertexCount, getAccessorData(gltf, binaryBuffer, attr.COLOR_0[1])),
                   Uvs(vertexCount, getAccessorData(gltf, binaryBuffer, attr.TEXCOORD_0[1])),
                   Indices(vertexCount, getAccessorData(gltf, binaryBuffer, primitive.indices[1])),
                   tex >>)
      FromPositions(pos) == Read(pos, Len(pos.data) \div 3)
  IN  FromPositions(getAccessorData(gltf, binaryBuffer, attr.POSITION[1]))

\* a variant that counts each part into its own offset
OffsetsOf_Inclusive(lengths, k, sum) ==
  [i \in 1..Len(lengths) |-> sum + lengths[i] + (IF i = 1 THEN 0 ELSE lengths[i - 1])]

RECURSIVE OffsetsOf(_, _, _)
\* the running sum of the lengths before each part
OffsetsOf(lengths, k, sum) ==
  IF k > Len(lengths) THEN << >>
  ELSE << sum >> \o OffsetsOf(lengths, k + 1, sum + lengths[k])

\* "merged.set(part, offset)" for each part in turn over a zero-filled array
\* of the given length; None when a part does not fit (RangeError)
MergeInto(length, parts, offsets) ==
  IF \E k \in 1..Len(parts) : offsets[k] + Len(parts[k]) > length THEN None
  ELSE Some([i \in 1..length |->
         LET covering == {k \in 1..Len(parts) : i > offsets[k] /\ i <= offsets[k] + Len(parts[k])}
         IN  IF covering = {} THEN 0
             ELSE LET k == CHOOSE c \in covering : \A d \in covering : c >= d
                  IN  parts[k][i - offsets[k]]])

\* a variant that takes the first chunk after the JSON chunk, whatever its type
FindBin_AnyType(b, chunkOffset) ==
  IF chunkOffset >= Len(b) THEN Returned(None)
  ELSE IF chunkOffset + 8 > Len(b) THEN Thrown("RangeError")
  ELSE Returned(Some(Slice(b, chunkOffset + 8, chunkOffset + 8 + GetUint32(b, chunkOffset))))

RECURSIVE FindBin(_, _)
\* "while (chunkOffset < dataView.byteLength)": the binary chunk's bytes
FindBin(b, chunkOffset) ==
  IF chunkOffset >= Len(b) THEN Returned(None)
  ELSE IF chunkOffset + 8 > Len(b) THEN Thrown("RangeError")
  ELSE LET declared == GetUint32(b, chunkOffset)
           chunkLength == IF declared > Len(b) THEN Len(b) ELSE declared
       IN  IF GetUint32(b, chunkOffset + 4) = ChunkBin
           THEN Returned(Some(Slice(b, chunkOffset + 8, chunkOffset + 8 + chunkLength)))
           ELSE FindBin(b, chunkOffset + 8 + chunkLength)

\* a variant that reads the last mesh of the document
LastMesh(meshes) == IF meshes = << >> THEN None ELSE Some(meshes[Len(meshes)])

\* const mesh = gltf.meshes?.[0]
FirstMesh(meshes) == IF meshes = << >> THEN None ELSE Some(meshes[1])

\* steps 4 to 7 of parseGlb, on the parsed document and the binary buffer
ReadFirstMesh(gltf, binaryBuffer) ==
  IF FirstMesh(gltf.meshes) = None THEN Thrown("GLB file does not contain any meshes.")
  ELSE IF Len(FirstMesh(gltf.meshes)[1].primitives) = 0 THEN Thrown("Mesh has no primitives.")
  ELSE
    LET retained == SelectSeq(FirstMesh(gltf.meshes)[1].primitives,
                              LAMBDA p : p.attributes.POSITION # None)
        Merged(prims, vOffsets, iOffsets, indexBases) ==
          LET totalVertexCount == IF prims = << >> THEN 0
                                  ELSE indexBases[Len(prims)] + (Len(prims[Len(prims)].positions) \div 3)
              mergedIndices == ToUint16Array(Flatten([k \in 1..Len(prims) |->
                                 [j \in 1..Len(prims[k].indices) |->
                                    prims[k].indices[j] + indexBases[k]]]))
              geometryPrimitives == [k \in 1..Len(prims) |->
                                       GeometryPrimitive(iOffsets[k], Len(prims[k].indices),
                                                         prims[k].texture, prims[k].color)]
              textured == {k \in 1..Len(prims) : prims[k].texture # None}
              Result(mergedPositions, mergedNormals, mergedColors, mergedUVs) ==
                IF None \in {mergedPositions, mergedNormals, mergedColors, mergedUVs}
                THEN Thrown("RangeError")
                ELSE Returned(Geometry(mergedPositions[1], mergedNormals[1], mergedIndices,
                                       Some(mergedColors[1]), Some(mergedUVs[1]),
                                       IF textured = {} THEN None
                                       ELSE prims[CHOOSE k \in textured : \A j \in textured : k <= j].texture,
                                       Some(geometryPrimitives)))
          IN  Result(MergeInto(3 * totalVertexCount,
                               [k \in 1..Len(prims) |-> prims[k].positions], vOffsets),
                     MergeInto(3 * totalVertexCount,
                               [k \in 1..Len(prims) |-> prims[k].normals], vOffsets),
                     MergeInto(4 * totalVertexCount,
                               [k \in 1..Len(prims) |-> prims[k].colors],
                               [k \in 1..Len(prims) |-> (vOffsets[k] * 4) \div 3]),
                     MergeInto(2 * totalVertexCount,
                               [k \in 1..Len(prims) |-> prims[k].uvs],
                               [k \in 1..Len(prims) |-> (vOffsets[k] \div 3) * 2]))
        Merge(prims) ==
          Merged(prims,
                 OffsetsOf([k \in 1..Len(prims) |-> Len(prims[k].positions)], 1, 0),
                 OffsetsOf([k \in 1..Len(prims) |-> Len(prims[k].indices)], 1, 0),
                 OffsetsOf([k \in 1..Len(prims) |-> Len(prims[k].positions) \div 3], 1, 0))
        Outcome(read) ==
          IF \E k \in 1..Len(read) : ~read[k].ok
          THEN read[CHOOSE k \in 1..Len(read) : ~read[k].ok /\ \A j \in 1..(k - 1) : read[j].ok]
          ELSE Merge([k \in 1..Len(read) |-> read[k].data])
    IN  Outcome([k \in 1..Len(retained) |-> ReadPrimitive(gltf, binaryBuffer, retained[k])])

\* the call either throws (ok = FALSE and the error) or returns a Geometry
parseGlb(arrayBuffer) ==
  IF Len(arrayBuffer) < 4 THEN Thrown("RangeError")
  ELSE IF GetUint32(arrayBuffer, 0) # GlbMagic
    THEN Thrown("Invalid GLB file: Incorrect magic number.")
  ELSE IF Len(arrayBuffer) < 8 THEN Thrown("RangeError")
  ELSE IF GetUint32(arrayBuffer, 4) # GlbVersion
    THEN Thrown("Unsupported GLB version. Only version 2 is supported.")
  ELSE IF Len(arrayBuffer) < 20 THEN Thrown("RangeError")
  ELSE IF GetUint32(arrayBuffer, 16) # ChunkJson
    THEN Thrown("Invalid GLB: First chunk must be JSON.")
  ELSE IF GetUint32(arrayBuffer, 12) > Len(arrayBuffer) - 20 THEN Thrown("RangeError")
  ELSE
    LET jsonChunkLength == GetUint32(arrayBuffer, 12)
        gltf == JsonParse(Slice(arrayBuffer, 20, 20 + jsonChunkLength))
        bin == FindBin(arrayBuffer, 20 + jsonChunkLength)
    IN  IF gltf = None THEN Thrown("SyntaxError")
        ELSE IF ~bin.ok THEN bin
        ELSE IF bin.data = None
          THEN Thrown("GLB file does not contain a binary buffer chunk.")
        ELSE ReadFirstMesh(gltf[1], bin.data[1])

----------------------------------------------------------------------------
(* plyParser.ts: parsePly *)

\* line.trim().split(/\s+/) of any line: the tokens of a data line are its
\* numbers; the words of a header line are no numbers
Tokens(line) ==
  IF line.type = "data" THEN line.nums
  ELSE << BadToken >> \o (IF line.name = "" THEN << >> ELSE << BadToken >>) \o line.nums

\* the header loop: vertexCount, faceCount, propertyMap, headerEnd
RECURSIVE PlyHeaderFrom(_, _, _)
PlyHeaderFrom(lines, i, h) ==
  IF i > Len(lines) THEN h
  ELSE LET line == lines[i]
       IN  CASE line.type = "element" /\ line.name = "vertex" ->
                  PlyHeaderFrom(lines, i + 1,
                    [h EXCEPT !.vertexCount = parseInt(At(line.nums, 1)),
                              !.readingVerts = TRUE])
             [] line.type = "element" /\ line.name = "face" ->
                  PlyHeaderFrom(lines, i + 1,
                    [h EXCEPT !.faceCount = parseInt(At(line.nums, 1)),
                              !.readingVerts = FALSE])
             [] line.type = "element" /\ line.name \notin { "vertex", "face" } ->
                  PlyHeaderFrom(lines, i + 1, [h EXCEPT !.readingVerts = FALSE])
             [] line.type = "property" /\ h.readingVerts ->
                  PlyHeaderFrom(lines, i + 1,
                    [h EXCEPT !.propertyMap = MapSet(@, line.name, h.currentPropertyIndex),
                              !.currentPropertyIndex = @ + 1])
             [] line.type = "end_header" -> [h EXCEPT !.headerEnd = i]
             [] OTHER -> PlyHeaderFrom(lines, i + 1, h)

PlyHeader(lines) ==
  PlyHeaderFrom(lines, 1, [vertexCount |-> 0, faceCount |-> 0, propertyMap |-> EmptyMap,
                           currentPropertyIndex |-> 0, readingVerts |-> FALSE,
                           headerEnd |-> 0])

\* for (let j = 1; j < parts.length - 1; j++) faces.push([parts[0], parts[j], parts[j + 1]])
PlyFanFaces(parts) ==
  [k \in 1..(IF Len(parts) >= 2 THEN Len(parts) - 2 ELSE 0) |->
     << parts[1], parts[k + 1], parts[k + 2] >>]

\* the triangles of one face line; none for a missing or empty line
PlyFaceLine(lines, k) ==
  IF k < 1 \/ k > Len(lines) \/ Tokens(lines[k]) = << >> THEN << >>
  ELSE LET all == [j \in 1..Len(Tokens(lines[k])) |-> parseInt(Tokens(lines[k])[j])]
           numVerts == Head(all)
           parts == Tail(all)
       IN  IF numVerts # NaN /\ numVerts # 0 /\ numVerts >= 3
           THEN PlyFanFaces(parts)
           ELSE << >>

PlyFaceSkipped(tempVertices, face) ==
  \/ \E j \in 1..3 : face[j] = NaN
  \/ Len(face) # 3
  \/ \E j \in 1..3 : ~VertexDefined(tempVertices, face[j])

RECURSIVE EmitPlyFrom(_, _, _, _, _, _)
EmitPlyFrom(faces, i, tempVertices, tempColors, hasColors, acc) ==
  IF i > Len(faces) THEN acc
  ELSE LET face == faces[i]
       IN  IF PlyFaceSkipped(tempVertices, face)
           THEN EmitPlyFrom(faces, i + 1, tempVertices, tempColors, hasColors, acc)
           ELSE LET v1 == tempVertices[face[1] + 1]
                    v2 == tempVertices[face[2] + 1]
                    v3 == tempVertices[face[3] + 1]
                    normal == normalize(cross(subtract(v2, v1), subtract(v3, v1)))
                IN  EmitPlyFrom(faces, i + 1, tempVertices, tempColors, hasColors,
                      [positions |-> acc.positions \o v1 \o v2 \o v3,
                       normals |-> acc.normals \o normal \o normal \o normal,
                       colors |-> IF hasColors
                                  THEN acc.colors \o tempColors[face[1] + 1]
                                         \o tempColors[face[2] + 1]
                                         \o tempColors[face[3] + 1]
                                  ELSE acc.colors,
                       indices |-> acc.indices \o << acc.currentIndex,
                                                     acc.currentIndex + 1,
                                                     acc.currentIndex + 2 >>,
                       currentIndex |-> acc.currentIndex + 3])

Failure(message) == [ok |-> FALSE, error |-> message, faces |-> << >>, geometry |-> None]

\* parts[r_idx] / 255.0
Channel(parts, idx) == NDiv(At(parts, idx + 1), 255 * One)

parsePlyRun(lines) ==
  LET h == PlyHeader(lines)
      has(p) == p \in DOMAIN h.propertyMap
      vertexCount == IF h.vertexCount = NaN THEN 0 ELSE h.vertexCount
      faceCount == IF h.faceCount = NaN THEN 0 ELSE h.faceCount
  IN  IF ~(has("x") /\ has("y") /\ has("z"))
      THEN Failure("PLY file must contain x, y, and z vertex properties.")
      ELSE IF h.headerEnd + vertexCount > Len(lines)
      THEN Failure("TypeError")   \* lines[headerEnd + i] is undefined
      ELSE
        LET x_idx == h.propertyMap["x"]
            y_idx == h.propertyMap["y"]
            z_idx == h.propertyMap["z"]
            hasColors == has("red") /\ has("green") /\ has("blue")
            vparts(i) == [j \in 1..Len(Tokens(lines[h.headerEnd + i])) |->
                            parseFloat(Tokens(lines[h.headerEnd + i])[j])]
            tempVertices == [i \in 1..vertexCount |->
                               << At(vparts(i), x_idx + 1), At(vparts(i), y_idx + 1),
                                  At(vparts(i), z_idx + 1) >>]
            tempColors == [i \in 1..vertexCount |->
                             IF hasColors
                             THEN << Channel(vparts(i), h.propertyMap["red"]),
                                     Channel(vparts(i), h.propertyMap["green"]),
                                     Channel(vparts(i), h.propertyMap["blue"]) >>
                             ELSE << >>]
            faceDataStart == h.headerEnd + vertexCount
            faces == IF h.vertexCount = NaN THEN << >>   \* lines[NaN] is undefined
                     ELSE Flatten([i \in 1..faceCount |->
                                     PlyFaceLine(lines, faceDataStart + i)])
            Result(out) ==
              [ok |-> TRUE, error |-> "", faces |-> faces,
               geometry |-> Some(Geometry(ToFloat32Array(out.positions),
                                          ToFloat32Array(out.normals),
                                          ToUint16Array(out.indices),
                                          IF hasColors /\ Len(out.colors) > 0
                                          THEN Some(ToFloat32Array(out.colors)) ELSE None,
                                          None, None, None))]
        IN  Result(EmitPlyFrom(faces, 1, tempVertices, tempColors, hasColors,
                               [positions |-> << >>, normals |-> << >>, colors |-> << >>,
                                indices |-> << >>, currentIndex |-> 0]))

----------------------------------------------------------------------------
(* stockModels.ts: the stock tree and rock, parsed once and cached in the   *)
(* module-level variables cachedTree and cachedRock                         *)

GRASS_TEXTURE == 1
WATER_TEXTURE == 2

treeMtlString ==
  << Line("newmtl", "Trunk", << >>), Line("Kd", "", << 360, 250, 200 >>),
     Line("newmtl", "Canopy", << >>), Line("Kd", "", << 130, 540, 130 >>) >>

treeObjString ==
  << Line("mtllib", "", << >>),
     Line("v", "", << 0, 0, 250 >>), Line("v", "", << 250, 0, 0 >>),
     Line("v", "", << 0, 0, -250 >>), Line("v", "", << -250, 0, 0 >>),
     Line("v", "", << 0, 2000, 250 >>), Line("v", "", << 250, 2000, 0 >>),
     Line("v", "", << 0, 2000, -250 >>), Line("v", "", << -250, 2000, 0 >>),
     Line("v", "", << 0, 4000, 0 >>), Line("v", "", << 890, 2500, 520 >>),
     Line("v", "", << -340, 2500, 1170 >>), Line("v", "", << -1130, 2500, 120 >>),
     Line("v", "", << -580, 2500, -1050 >>), Line("v", "", << 720, 2500, -850 >>),
     Line("v", "", << 580, 1000, 1050 >>), Line("v", "", << -720, 1000, 850 >>),
     Line("v", "", << -890, 1000, -520 >>), Line("v", "", << 340, 1000, -1170 >>),
     Line("v", "", << 1130, 1000, -120 >>),
     Line("usemtl", "Trunk", << >>),
     Line("f", "", << 1000, 2000, 6000, 5000 >>), Line("f", "", << 2000, 3000, 7000, 6000 >>),
     Line("f", "", << 3000, 4000, 8000, 7000 >>), Line("f", "", << 4000, 1000, 5000, 8000 >>),
     Line("f", "", << 1000, 4000, 3000, 2000 >>),
     Line("usemtl", "Canopy", << >>),
     Line("f", "", << 9000, 10000, 11000 >>), Line("f", "", << 9000, 11000, 12000 >>),
     Line("f", "", << 9000, 12000, 13000 >>), Line("f", "", << 9000, 13000, 14000 >>),
     Line("f", "", << 9000, 14000, 10000 >>), Line("f", "", << 15000, 16000, 10000 >>),
     Line("f", "", << 16000, 17000, 11000 >>), Line("f", "", << 17000, 18000, 12000 >>),
     Line("f", "", << 18000, 19000, 13000 >>), Line("f", "", << 19000, 20000, 14000 >>),
     Line("f", "", << 10000, 16000, 11000 >>), Line("f", "", << 11000, 17000, 12000 >>),
     Line("f", "", << 12000, 18000, 13000 >>), Line("f", "", << 13000, 19000, 14000 >>),
     Line("f", "", << 14000, 20000, 10000 >>), Line("f", "", << 15000, 10000, 20000 >>),
     Line("f", "", << 16000, 15000, 17000 >>), Line("f", "", << 17000, 15000, 18000 >>),
     Line("f", "", << 18000, 15000, 19000 >>), Line("f", "", << 19000, 15000, 20000 >>) >>

rockMtlString ==
  << Line("newmtl", "RockSurface", << >>), Line("Kd", "", << 500, 500, 500 >>) >>

rockObjString ==
  << Line("mtllib", "", << >>),
     Line("v", "", << 0, 0, 1000 >>), Line("v", "", << 866, 0, -500 >>),
     Line("v", "", << -866, 0, -500 >>), Line("v", "", << 0, 1500, 0 >>),
     Line("v", "", << 400, 200, -800 >>), Line("v", "", << -500, 300, -700 >>),
     Line("v", "", << 700, 100, 600 >>), Line("v", "", << -600, 200, 700 >>),
     Line("usemtl", "RockSurface", << >>),
     Line("f", "", << 1000, 2000, 3000 >>), Line("f", "", << 1000, 2000, 4000 >>),
     Line("f", "", << 2000, 3000, 4000 >>), Line("f", "", << 3000, 1000, 4000 >>),
     Line("f", "", << 1000, 7000, 8000 >>), Line("f", "", << 2000, 5000, 7000 >>),
     Line("f", "", << 3000, 6000, 8000 >>), Line("f", "", << 5000, 6000, 3000 >>),
     Line("f", "", << 5000, 2000, 3000 >>), Line("f", "", << 6000, 8000, 1000 >>),
     Line("f", "", << 7000, 5000, 3000 >>) >>

\* a variant whose later calls return the tree without its material colors
createTree_Stale(cached) ==
  IF cached # None THEN parseObj(treeObjString, None)
  ELSE parseObj(treeObjString, Some(treeMtlString))

\* the Geometry returned, given the cache variable's value
createTree(cached) == IF cached # None THEN cached[1] ELSE parseObj(treeObjString, Some(treeMtlString))
createRock(cached) == IF cached # None THEN cached[1] ELSE parseObj(rockObjString, Some(rockMtlString))

----------------------------------------------------------------------------
(* The geographic converter: triangulate, getCentroid,                      *)
(* getRandomPointInTriangle, getModel, parseGeoJsonToShapes                 *)

triangulate(polygon) ==
  IF Len(polygon) < 3 THEN << >>
  ELSE Flatten([i \in 1..(Len(polygon) - 2) |-> << 0, i, i + 1 >>])

RECURSIVE SumAxis(_, _, _)
SumAxis(polygon, axis, k) ==
  IF k = 0 THEN 0 ELSE NAdd(SumAxis(polygon, axis, k - 1), polygon[k][axis])

\* a variant that returns the first vertex of the ring
getCentroid_FirstVertex(polygon) ==
  IF Len(polygon) = 0 THEN << 0, 0 >> ELSE polygon[1]

getCentroid(polygon) ==
  IF Len(polygon) = 0 THEN << 0, 0 >>
  ELSE << NDiv(SumAxis(polygon, 1, Len(polygon)), Len(polygon) * One),
          NDiv(SumAxis(polygon, 2, Len(polygon)), Len(polygon) * One) >>

\* a variant that returns the two coordinates of the point exchanged
getRandomPointInTriangle_Transposed(p1, p2, p3, r1, r2) ==
  LET sqrtR1 == Sqrt(r1)
      A == One - sqrtR1
      B == NMul(sqrtR1, One - r2)
      C == NMul(sqrtR1, r2)
  IN  << NMul(A, p1[2]) + NMul(B, p2[2]) + NMul(C, p3[2]),
         NMul(A, p1[1]) + NMul(B, p2[1]) + NMul(C, p3[1]) >>

\* r1 and r2 are the two values Math.random() returns
getRandomPointInTriangle(p1, p2, p3, r1, r2) ==
  LET sqrtR1 == Sqrt(r1)
      A == One - sqrtR1
      B == NMul(sqrtR1, One - r2)
      C == NMul(sqrtR1, r2)
  IN  << NMul(A, p1[1]) + NMul(B, p2[1]) + NMul(C, p3[1]),
         NMul(A, p1[2]) + NMul(B, p2[2]) + NMul(C, p3[2]) >>

ModelData(glb, obj, mtl) == [glb |-> glb, obj |-> obj, mtl |-> mtl]

\* stock is what stockModelFn() returns
getModel(modelData, stock) ==
  IF modelData # None /\ modelData[1].glb # None /\ modelData[1].glb[1] # << >>
    THEN parseGlb(modelData[1].glb[1])
  ELSE IF modelData # None /\ modelData[1].obj # None /\ modelData[1].obj[1] # << >>
    THEN Returned(parseObj(modelData[1].obj[1], modelData[1].mtl))
  ELSE Returned(stock)

Feature(geometryType, ring, type) == [geometryType |-> geometryType, ring |-> ring, type |-> type]

EmptyGeometry == Geometry(<< >>, << >>, << >>, None, None, None, None)

\* the bounding box of the first 'asset' ring and the projection it defines
Projection(assetCoords) ==
  LET lons == {assetCoords[i][1] : i \in 1..Len(assetCoords)}
      lats == {assetCoords[i][2] : i \in 1..Len(assetCoords)}
      minLon == IF lons = {} THEN Infinity ELSE CHOOSE x \in lons : \A y \in lons : x <= y
      maxLon == IF lons = {} THEN -Infinity ELSE CHOOSE x \in lons : \A y \in lons : x >= y
      minLat == IF lats = {} THEN Infinity ELSE CHOOSE x \in lats : \A y \in lats : x <= y
      maxLat == IF lats = {} THEN -Infinity ELSE CHOOSE x \in lats : \A y \in lats : x >= y
      lonRange == maxLon - minLon
      latRange == maxLat - minLat
      maxRange == IF lonRange > latRange THEN lonRange ELSE latRange
  IN  [centerLon |-> IF lons = {} THEN NaN ELSE TruncDiv(minLon + maxLon, 2),
       centerLat |-> IF lats = {} THEN NaN ELSE TruncDiv(minLat + maxLat, 2),
       scale |-> IF maxRange > 0 THEN NDiv(20 * One, maxRange) ELSE 1000 * One]

project(pr, point) ==
  << NMul(NSub(point[1], pr.centerLon), pr.scale),
     NMul(NMul(NSub(point[2], pr.centerLat), pr.scale), -One) >>

\* yLevel, color, texture and uvScale of a terrain tag; None for "default: continue"
TerrainStyle(featureType) ==
  CASE featureType = "asset" ->
         Some([yLevel |-> 0, color |-> << 800, 800, 800, One >>, texture |-> None, uvScale |-> One])
    [] featureType = "grass" ->
         Some([yLevel |-> 10, color |-> << 300, 600, 300, One >>,
               texture |-> Some(GRASS_TEXTURE), uvScale |-> 500])
    [] featureType = "river" ->
         Some([yLevel |-> 5, color |-> << One, One, One, One >>,
               texture |-> Some(WATER_TEXTURE), uvScale |-> 500])
    [] featureType = "rock" ->
         Some([yLevel |-> 15, color |-> << 450, 450, 450, One >>, texture |-> None, uvScale |-> One])
    [] OTHER -> None

TerrainGeometry(projectedPolygon, style) ==
  Geometry([i \in 1..(3 * Len(projectedPolygon)) |->
              CASE (i - 1) % 3 = 0 -> projectedPolygon[((i - 1) \div 3) + 1][1]
                [] (i - 1) % 3 = 1 -> style.yLevel
                [] OTHER -> projectedPolygon[((i - 1) \div 3) + 1][2]],
           [i \in 1..(3 * Len(projectedPolygon)) |-> IF (i - 1) % 3 = 1 THEN One ELSE 0],
           ToUint16Array(triangulate(projectedPolygon)),
           None,
           Some([i \in 1..(2 * Len(projectedPolygon)) |->
                   NMul(projectedPolygon[((i - 1) \div 2) + 1][((i - 1) % 2) + 1], style.uvScale)]),
           style.texture, None)

\* the value of the d-th Math.random() call of an invocation (d from 0)
Draw(rnd, d) == rnd[(d % Len(rnd)) + 1]

\* the instances scattered over the triangles of one grass terrain; each
\* instance consumes four random values, starting at draw number firstDraw
Scatter(g, yLevel, grassModel, rnd, firstDraw) ==
  LET point(k) == << g.positions[3 * k + 1], g.positions[3 * k + 3] >>
      corner(t, c) == point(g.indices[3 * (t - 1) + c])
      area(t) ==
        LET p1 == corner(t, 1)
            p2 == corner(t, 2)
            p3 == corner(t, 3)
            twice == NMul(p1[1], p2[2] - p3[2]) + NMul(p2[1], p3[2] - p1[2])
                       + NMul(p3[1], p1[2] - p2[2])
        IN  NMul(500, IF twice < 0 THEN -twice ELSE twice)
      counts == [t \in 1..(Len(g.indices) \div 3) |-> NMul(area(t), 2 * One) \div One]
      bases == OffsetsOf(counts, 1, 0)
      instance(t, n) ==
        LET d == firstDraw + 4 * n
            pt == getRandomPointInTriangle(corner(t, 1), corner(t, 2), corner(t, 3),
                                           Draw(rnd, d), Draw(rnd, d + 1))
            half == (Draw(rnd, d + 2) * 180) \div One
            scaleVar == 800 + NMul(Draw(rnd, d + 3), 400)
        IN  Shape(grassModel, << pt[1], yLevel, pt[2] >>,
                  Some(<< 0, SinDeg(half), 0, CosDeg(half) >>),
                  Some(<< scaleVar, scaleVar, scaleVar >>),
                  Some(<< One, One, One, One >>))
  IN  Flatten([t \in 1..Len(counts) |-> [k \in 1..counts[t] |-> instance(t, bases[t] + k - 1)]])

RECURSIVE FeatureLoop(_, _, _, _, _, _)
\* "for (const feature of geojson.features)"
FeatureLoop(features, i, pr, models, rnd, shapes) ==
  IF i > Len(features) THEN shapes
  ELSE
    LET feature == features[i]
        projectedPolygon == [k \in 1..Len(feature.ring) |-> project(pr, feature.ring[k])]
        centroid == getCentroid(projectedPolygon)
        style == TerrainStyle(feature.type)
        geometry == TerrainGeometry(projectedPolygon, style[1])
        terrain == Shape(geometry, << 0, 0, 0 >>, None, None, Some(style[1].color))
        drawn == 4 * Cardinality({k \in 1..Len(shapes) : shapes[k].rotation # None})
    IN  IF feature.geometryType # "Polygon" THEN FeatureLoop(features, i + 1, pr, models, rnd, shapes)
        ELSE IF feature.type \in {"tree", "rock"}
          THEN FeatureLoop(features, i + 1, pr, models, rnd,
                 Append(shapes, Shape(IF feature.type = "tree" THEN models.tree ELSE models.rock,
                                      << centroid[1], 0, centroid[2] >>, None, None, None)))
        ELSE IF style = None THEN FeatureLoop(features, i + 1, pr, models, rnd, shapes)
        ELSE IF feature.type = "grass" /\ models.grass # None
          THEN FeatureLoop(features, i + 1, pr, models, rnd,
                 Append(shapes, terrain)
                   \o Scatter(geometry, style[1].yLevel, models.grass[1], rnd, drawn))
        ELSE FeatureLoop(features, i + 1, pr, models, rnd, Append(shapes, terrain))

\* a variant that resolves the models before it looks for the boundary
parseGeoJsonToShapes_ModelsFirst(features, customModels, rnd, treeCache, rockCache) ==
  LET assets == {i \in 1..Len(features) : features[i].type = "asset"}
      assetFeature == features[CHOOSE i \in assets : \A j \in assets : i <= j]
      Shapes(treeModel, rockModel, grassModel) ==
        IF ~treeModel.ok THEN treeModel
        ELSE IF ~rockModel.ok THEN rockModel
        ELSE IF customModels.grass # None /\ ~grassModel.ok THEN grassModel
        ELSE IF assets = {} THEN Thrown("GeoJSON must contain a feature with 'type: \"asset\"'")
        ELSE Returned(FeatureLoop(features, 1, Projection(assetFeature.ring),
                        [tree |-> treeModel.data, rock |-> rockModel.data,
                         grass |-> IF customModels.grass # None THEN Some(grassModel.data) ELSE None],
                        rnd, << >>))
  IN  Shapes(getModel(customModels.tree, createTree(treeCache)),
             getModel(customModels.rock, createRock(rockCache)),
             getModel(customModels.grass, EmptyGeometry))

\* rnd: the values Math.random() returns during the call, in order (repeated
\* cyclically); treeCache and rockCache: cachedTree and cachedRock at the call
parseGeoJsonToShapes(features, customModels, rnd, treeCache, rockCache) ==
  LET assets == {i \in 1..Len(features) : features[i].type = "asset"}
      assetFeature == features[CHOOSE i \in assets : \A j \in assets : i <= j]
      Shapes(treeModel, rockModel, grassModel) ==
        IF ~treeModel.ok THEN treeModel
        ELSE IF ~rockModel.ok THEN rockModel
        ELSE IF customModels.grass # None /\ ~grassModel.ok THEN grassModel
        ELSE Returned(FeatureLoop(features, 1, Projection(assetFeature.ring),
                        [tree |-> treeModel.data, rock |-> rockModel.data,
                         grass |-> IF customModels.grass # None THEN Some(grassModel.data) ELSE None],
                        rnd, << >>))
  IN  IF assets = {} THEN Thrown("GeoJSON must contain a feature with 'type: \"asset\"'")
      ELSE Shapes(getModel(customModels.tree, createTree(treeCache)),
                  getModel(customModels.rock, createRock(rockCache)),
                  getModel(customModels.grass, EmptyGeometry))

----------------------------------------------------------------------------
(* Inputs of the mesh-text importer. *)

SeqUpTo(S, n) == UNION { [1..k -> S] : k \in 0..n }

v(x, y, z) == Line("v", "", << x, y, z >>)
f(refs) == Line("f", "", [i \in 1..Len(refs) |->
                           IF refs[i] = BadToken THEN BadToken ELSE refs[i] * One])
usemtl(name) == Line("usemtl", name, << >>)

\* the unit square of the z = 0 plane
SquareBlock == << v(0, 0, 0), v(One, 0, 0), v(One, One, 0), v(0, One, 0) >>
PentBlock == SquareBlock \o << v(0, 0, One) >>
ShortBlock == << Line("v", "", << 0, 0 >>), v(One, 0, 0), v(One, One, 0), v(0, One, 0) >>
LongBlock == << Line("v", "", << 0, 0, 0, One >>), v(One, 0, 0), v(One, One, 0),
                v(0, One, 0) >>

VertexBlocks == { SquareBlock, PentBlock, ShortBlock, LongBlock }

FaceRefs ==
  { << 1, 2, 3, 4 >>, << 4, 3, 2, 1 >>, << 1, 2, 3 >>, << 1, 2 >>,
    << 1, 2, 3, 4, 5 >>, << 1, BadToken, 3 >>, << 1, 2, 9, 4 >>, << 0, 1, 2 >> }

ObjRecords == { f(r) : r \in FaceRefs } \cup { usemtl("A"), usemtl("Z") }

ObjTexts == { b \o r : b \in VertexBlocks, r \in SeqUpTo(ObjRecords, MaxLines) }

\* face records with a reference that names no vertex of the unit square:
\* out of range, zero, negative, not a number; alone in a triangle, and at
\* the first, a middle and the last place of a polygon
FaceRecords ==
  { f(r) : r \in { << 1, 2, 3 >>, << 1, 2, 3, 4 >>, << 1, 2, 9 >>, << 0, 1, 2 >>,
                   << -1, 2, 3 >>, << 1, BadToken, 3 >>, << 9, 2, 3, 4 >>,
                   << 1, 9, 3, 4 >>, << 1, 2, 3, 9 >>, << 1, 2, 3, 0 >>,
                   << 1, 2, 3, -1 >>, << 1, 2, 3, BadToken >> } }

\* texts with and without vertex records
FaceTexts == { b \o r : b \in { << >>, SquareBlock }, r \in SeqUpTo(FaceRecords, MaxLines) }

\* texts of the unit square followed by up to MaxLines + 1 records: material
\* directives, a triangle, a quadrilateral and a triangle that is dropped
TaggedRecords ==
  { usemtl("A"), usemtl("B"), usemtl("Z"),
    f(<< 1, 2, 3 >>), f(<< 1, 2, 3, 4 >>), f(<< 1, 9, 3 >>) }

TaggedTexts == { SquareBlock \o r : r \in SeqUpTo(TaggedRecords, MaxLines + 1) }

\* no library; A red; A without color and B green; A red and B green
TaggedLibraries ==
  { None,
    Some(<< Line("newmtl", "A", << >>), Line("Kd", "", << One, 0, 0 >>) >>),
    Some(<< Line("newmtl", "A", << >>), Line("newmtl", "B", << >>),
            Line("Kd", "", << 0, One, 0 >>) >>),
    Some(<< Line("newmtl", "A", << >>), Line("Kd", "", << One, 0, 0 >>),
            Line("newmtl", "B", << >>), Line("Kd", "", << 0, One, 0 >>) >>),
    Some(<< Line("newmtl", "A", << >>), Line("newmtl", "B", << >>) >>) }

MtlTexts ==
  { None,
    Some(<< Line("newmtl", "A", << >>), Line("Kd", "", << One, 0, 0 >>) >>),
    Some(<< Line("newmtl", "A", << >>), Line("newmtl", "B", << >>),
            Line("Kd", "", << 0, One, 0 >>) >>) }

\* Material texts of up to MaxLines + 1 records: named and nameless newmtl
\* records, diffuse colors of three and of two values, a comment and a
\* record of another type
MtlRecords ==
  { Line("newmtl", "A", << >>), Line("newmtl", "B", << >>), Line("newmtl", "", << >>),
    Line("Kd", "", << One, 0, 0 >>), Line("Kd", "", << 0, One, 0 >>),
    Line("Kd", "", << 0, One >>), Line("#", "", << >>), Line("Ka", "", << 0, 0, One >>) }

LibraryTexts == { Some(t) : t \in SeqUpTo(MtlRecords, MaxLines + 1) }

\* the text and library of a call made between two calls on the same input
OtherObjText == SquareBlock \o << usemtl("A"), f(<< 1, 2, 3 >>) >>
OtherMtlText == Some(<< Line("newmtl", "A", << >>), Line("Kd", "", << 0, 0, One >>) >>)

----------------------------------------------------------------------------
(* Inputs of the vertex-property importer. *)

data(nums) == Line("data", "", nums)
property(name) == Line("property", name, << >>)

PlyPreamble == << Line("ply", "", << >>), Line("format", "ascii", << One >>) >>

PlyVertexProperties ==
  [xyz |-> << "x", "y", "z" >>,
   xyzrgb |-> << "x", "y", "z", "red", "green", "blue" >>,
   xy |-> << "x", "y" >>]

PlyHeaderLines(kind, nVerts, nFaces) ==
  PlyPreamble
    \o << Line("element", "vertex", << nVerts * One >>) >>
    \o [i \in 1..Len(PlyVertexProperties[kind]) |-> property(PlyVertexProperties[kind][i])]
    \o << Line("element", "face", << nFaces * One >>),
          property("uchar"),    \* property list uchar int vertex_indices
          Line("end_header", "", << >>) >>

\* x y z red green blue
PlyVertexLines ==
  << data(<< 0, 0, 0, 255 * One, 0, 0 >>),
     data(<< One, 0, 0, 0, 255 * One, 0 >>),
     data(<< One, One, 0, 0, 0, 255 * One >>),
     data(<< 0, One, 0, 255 * One, 255 * One, 0 >>),
     data(<< 0, 0, One, 0, 0, 0 >>) >>

PlyShortVertexLines == << data(<< 0, 0 >>) >> \o Tail(PlyVertexLines)

PlyFaceRecords ==
  { [i \in 1..Len(r) |-> IF r[i] = BadToken THEN BadToken ELSE r[i] * One] :
      r \in { << 3, 0, 1, 2 >>, << 4, 0, 1, 2, 3 >>, << 5, 0, 1, 2, 3, 4 >>,
              << 2, 0, 1 >>, << 3, 0, 1 >>, << 2, 0, 1, 2 >>, << 3, 0, 1, 2, 0 >>,
              << 3, 0, BadToken, 2 >>, << 3, 0, 1, 9 >>, << >> } }

PlyTexts ==
  { PlyHeaderLines(kind, Len(verts), Len(fs)) \o verts \o [i \in 1..Len(fs) |-> data(fs[i])] :
      kind \in DOMAIN PlyVertexProperties,
      verts \in { PlyVertexLines, PlyShortVertexLines },
      fs \in SeqUpTo(PlyFaceRecords, MaxLines) }

\* Headers with other elements around the vertex element, and vertex counts
\* that exceed the records of the text
ForeignBefore ==
  { << >>,
    << property("x") >>,
    << Line("element", "edge", << 0 >>), property("x"), property("y"), property("z") >> }

ForeignAfter == { << >>, << Line("element", "edge", << 0 >>), property("z") >> }

DeclaredProperties ==
  { << "x", "y", "z" >>, << "z", "x", "y" >>, << "x", "y" >>, << >>,
    << "x", "y", "z", "red", "green", "blue" >> }

HeaderTexts ==
  { PlyPreamble \o before
      \o << Line("element", "vertex", << (Len(PlyVertexLines) + extra) * One >>) >>
      \o [i \in 1..Len(props) |-> property(props[i])]
      \o after
      \o << Line("element", "face", << Len(fs) * One >>), property("uchar"),
            Line("end_header", "", << >>) >>
      \o PlyVertexLines \o [i \in 1..Len(fs) |-> data(fs[i])] :
      before \in ForeignBefore, props \in DeclaredProperties, after \in ForeignAfter,
      extra \in { 0, 3 },
      fs \in SeqUpTo({ << 3 * One, 0, One, 2 * One >>,
                       << 4 * One, 0, One, 2 * One, 3 * One >> }, MaxLines) }

----------------------------------------------------------------------------
(* Inputs of the serializer and of the container importer. *)

Red == << One, 0, 0, One >>
Green == << 0, One, 0, One >>

\* the shapes a scene is made of: one per generator, one imported triangle
\* (an index buffer of 6 bytes), and one without geometry
ShapeChoices ==
  { Shape(createCube(One), << 0, 0, 0 >>, None, None, Some(Red)),
    Shape(parseObj(SquareBlock \o << f(<< 1, 2, 3 >>) >>, None), << 0, 0, One >>, None, None, None),
    Shape(createPyramid(One, 2 * One), << One, 0, 0 >>, None, None, Some(Green)),
    Shape(createSphere(One, 4, 2), << 0, One, 0 >>, None, Some(<< One, One, One >>), None),
    Shape(EmptyGeometry, << 0, 0, 0 >>, None, None, None) }

ShapeLists == SeqUpTo(ShapeChoices, MaxShapes)

\* the arguments of createSphere: counts whose angles are multiples of 15 degrees
SphereRadii == { One, 750 }
SphereSectors == { 1, 2, 3, 4, 6 }
SphereStacks == { 1, 2, 3, 4 }

\* the scene serialized between two serializations of the same scene
OtherShapes == << Shape(createPyramid(2 * One, One), << 0, 0, 0 >>, None, None, None) >>

Blue == << 0, 0, One, One >>

\* shapes with an explicit flat color, no vertex colors and no texture: the
\* cube (which has UVs) and an imported triangle (which has none)
FlatShapeChoices ==
  { Shape(g, << 0, 0, 0 >>, None, None, Some(c)) :
      g \in { createCube(One), parseObj(SquareBlock \o << f(<< 1, 2, 3 >>) >>, None) },
      c \in { Red, Green, Blue } }

\* the scenes of three such shapes with pairwise distinct colors
FlatScenes ==
  { s \in [1..3 -> FlatShapeChoices] : \A i, j \in 1..3 : i # j => s[i].color # s[j].color }

\* shapes with a texture: the grass and the water image on a generator's
\* geometry, a geometry of two sub-primitive ranges of which the first is
\* textured; a shape without texture; an imported triangle with vertex
\* colors; and a geometry with four-component vertex colors and two ranges,
\* one with a base color and one with the grass image and a base color
TexturedShapeChoices ==
  { Shape([createCube(One) EXCEPT !.texture = Some(GRASS_TEXTURE)], << 0, 0, 0 >>, None, None, None),
    Shape([createPyramid(One, One) EXCEPT !.texture = Some(WATER_TEXTURE)], << One, 0, 0 >>, None, None, None),
    Shape([createPyramid(One, One) EXCEPT
             !.primitives = Some(<< GeometryPrimitive(0, 6, Some(GRASS_TEXTURE), None),
                                    GeometryPrimitive(6, 12, None, Some(Red)) >>)],
          << 0, One, 0 >>, None, None, None),
    Shape(createCube(One), << 0, 0, One >>, None, None, Some(Green)),
    Shape(parseObj(SquareBlock \o << usemtl("A"), f(<< 1, 2, 3 >>) >>,
                   Some(<< Line("newmtl", "A", << >>), Line("Kd", "", << 0, 0, One >>) >>)),
          << One, One, 0 >>, None, None, None),
    Shape([createPyramid(One, One) EXCEPT
             !.colors = Some([i \in 1..20 |-> One]),
             !.primitives = Some(<< GeometryPrimitive(0, 6, None, Some(Red)),
                                    GeometryPrimitive(6, 12, Some(GRASS_TEXTURE), Some(Green)) >>)],
          << 0, One, One >>, None, None, None) }

TexturedScenes == SeqUpTo(TexturedShapeChoices, MaxShapes)

\* a container written by another exporter: the pyramid as a non-indexed
\* primitive, or with an index buffer that names a vertex it does not have
ForeignParts ==
  LET Variants(parts, indexAt) ==
        { [parts EXCEPT !.gltf.meshes[1].primitives[1].indices = None],
          [parts EXCEPT !.combinedBuffer[indexAt + 1] = 7] }
      Of(parts) == Variants(parts, parts.gltf.bufferViews[Len(parts.gltf.bufferViews)].byteOffset)
  IN  Of(generateGltfParts(<< Shape(createPyramid(One, One), << 0, 0, 0 >>, None, None, None) >>))

ForeignFiles == { GlbContainer(JsonStringify(parts.gltf), parts.combinedBuffer) : parts \in ForeignParts }

\* the pyramid written as one primitive, and as three primitives of one,
\* two and three triangles that share the vertex attributes
PyramidParts == generateGltfParts(<< Shape(createPyramid(One, One), << 0, 0, 0 >>, None, None, None) >>)

ThreePrimitiveParts ==
  generateGltfParts(<< Shape([createPyramid(One, One) EXCEPT
                                !.primitives = Some(<< GeometryPrimitive(0, 3, None, None),
                                                       GeometryPrimitive(3, 6, None, None),
                                                       GeometryPrimitive(9, 9, None, None) >>)],
                             << 0, 0, 0 >>, None, None, None) >>)

\* the second primitive reads the first four vertices only, through an
\* accessor of its own, and has no normals and no UVs
UnevenParts ==
  [ThreePrimitiveParts EXCEPT
     !.gltf.accessors = Append(@, [@[1] EXCEPT !.count = 4]),
     !.gltf.meshes[1].primitives[2].attributes =
        [POSITION |-> Some(Len(ThreePrimitiveParts.gltf.accessors)), NORMAL |-> None,
         COLOR_0 |-> None, TEXCOORD_0 |-> None]]

\* the primitives numbered in S written without a POSITION attribute
WithoutPosition(parts, S) ==
  [parts EXCEPT !.gltf.meshes[1].primitives =
     [k \in 1..Len(@) |-> IF k \in S THEN [@[k] EXCEPT !.attributes.POSITION = None] ELSE @[k]]]

\* the last primitive's first index replaced by a 16-bit value
WithIndex(parts, value) ==
  LET at == parts.gltf.bufferViews[Len(parts.gltf.bufferViews)].byteOffset + 2 * 12
  IN  [parts EXCEPT !.combinedBuffer[at + 1] = value % 256,
                    !.combinedBuffer[at + 2] = value \div 256]

\* the index buffer of the one-primitive pyramid written as 32-bit integers,
\* the first of them being the given value
WideIndexParts(first) ==
  LET parts == PyramidParts
      view == Len(parts.gltf.bufferViews)
      at == parts.gltf.bufferViews[view].byteOffset
      indices == createPyramid(One, One).indices
      wide == Flatten([i \in 1..Len(indices) |-> U32Bytes(IF i = 1 THEN first ELSE indices[i])])
  IN  [parts EXCEPT !.gltf.accessors[Len(parts.gltf.accessors)].componentType = 5125,
                    !.gltf.bufferViews[view].byteLength = Len(wide),
                    !.gltf.buffers[1].byteLength = at + Len(wide),
                    !.combinedBuffer = Slice(parts.combinedBuffer, 0, at) \o wide]

MultiPrimitiveParts ==
  { WithoutPosition(parts, S) : parts \in { ThreePrimitiveParts, UnevenParts },
                                S \in SUBSET (1..3) }
    \cup { WithIndex(ThreePrimitiveParts, 65535), WideIndexParts(0), WideIndexParts(65537) }

\* a chunk of a container: its length, its type and its payload
ChunkOf(type, payload) == U32Bytes(Len(payload)) \o U32Bytes(type) \o payload

\* a container of the JSON chunk followed by the given chunks
ContainerOf(jsonBytes, chunks) ==
  LET json == padBuffer(jsonBytes, 4, 32)
      body == ChunkOf(ChunkJson, json) \o Flatten(chunks)
  IN  U32Bytes(GlbMagic) \o U32Bytes(GlbVersion) \o U32Bytes(12 + Len(body)) \o body

\* the bytes written over the buffer from the offset on
Patched(b, offset, bytes) ==
  [i \in 1..Len(b) |-> IF i > offset /\ i <= offset + Len(bytes) THEN bytes[i - offset] ELSE b[i]]

\* containers that are not well formed: a wrong magic, a wrong version, a
\* first chunk that is not JSON, no binary chunk (with and without chunks of
\* another type), a document without meshes, a truncated file; and one with a
\* chunk of another type before the binary chunk
MalformedFiles ==
  LET json == JsonStringify(PyramidParts.gltf)
      bin == PyramidParts.combinedBuffer
      good == GlbContainer(json, bin)
      other == ChunkOf(7, << 1, 2, 3, 4 >>)
  IN  { Patched(good, i, << 0 >>) : i \in 0..3 }
        \cup { Patched(good, 4, U32Bytes(version)) : version \in { 0, 1, 3 } }
        \cup { Patched(good, 16, U32Bytes(type)) : type \in { 0, ChunkBin } }
        \cup { ContainerOf(json, << >>),
               ContainerOf(json, << other >>),
               ContainerOf(json, << other, other >>),
               ContainerOf(json, << ChunkOf(7, bin) >>),
               ContainerOf(json, << other, ChunkOf(ChunkBin, bin) >>),
               ContainerOf(JsonStringify([PyramidParts.gltf EXCEPT !.meshes = << >>]),
                           << ChunkOf(ChunkBin, bin) >>),
               ContainerOf(JsonStringify([PyramidParts.gltf EXCEPT !.meshes = << >>, !.nodes = << >>]),
                           << other, ChunkOf(ChunkBin, bin) >>),
               << >>, Slice(good, 0, 6), Slice(good, 0, 16), good }

\* the files given to the importer alone
ImportFiles ==
  ForeignFiles \cup MalformedFiles
    \cup { GlbContainer(JsonStringify(parts.gltf), parts.combinedBuffer) : parts \in MultiPrimitiveParts }

----------------------------------------------------------------------------
(* Inputs of the geographic converter. *)

Ring(points) == [i \in 1..Len(points) |-> << points[i][1] * One, points[i][2] * One >>]

AssetFeature == Feature("Polygon", Ring(<< << 0, 0 >>, << 20, 0 >>, << 20, 20 >>, << 0, 20 >> >>), "asset")

GeoFeatures ==
  { AssetFeature,
    Feature("Polygon", Ring(<< << 10, 10 >>, << 12, 10 >>, << 10, 12 >> >>), "grass"),
    Feature("Polygon", Ring(<< << 2, 2 >>, << 4, 2 >>, << 4, 4 >>, << 2, 4 >>, << 1, 3 >> >>), "river"),
    Feature("Polygon", Ring(<< << 5, 5 >>, << 6, 5 >>, << 6, 6 >> >>), "tree"),
    Feature("Polygon", Ring(<< << 7, 7 >>, << 8, 7 >> >>), "rock"),
    Feature("Point", Ring(<< << 1, 1 >> >>), "grass"),
    Feature("Polygon", Ring(<< << 3, 3 >>, << 4, 3 >> >>), "river"),
    Feature("Polygon", Ring(<< << 1, 1 >>, << 2, 1 >>, << 2, 2 >> >>), "road") }

GeoTexts == { fs \in SeqUpTo(GeoFeatures, MaxFeatures) : TRUE }

GrassObj == SquareBlock \o << f(<< 1, 2, 3 >>) >>

CustomModelChoices ==
  { [tree |-> None, rock |-> None, grass |-> None],
    [tree |-> None, rock |-> None, grass |-> Some(ModelData(None, Some(GrassObj), None))],
    [tree |-> Some(ModelData(None, Some(GrassObj), None)), rock |-> None, grass |-> None] }

\* Inputs of the scattering: grass polygons whose triangles have the areas 2
\* (a triangle), 1.5 and 1.5 (a quadrilateral) and 1.125 (a triangle with
\* fractional coordinates), with a custom ground-cover model
ScatterFeatures ==
  { AssetFeature,
    Feature("Polygon", Ring(<< << 10, 10 >>, << 12, 10 >>, << 10, 12 >> >>), "grass"),
    Feature("Polygon", Ring(<< << 2, 2 >>, << 5, 2 >>, << 5, 3 >>, << 2, 3 >> >>), "grass"),
    Feature("Polygon", << << 6 * One, 6 * One >>, << 6 * One + 1500, 6 * One >>,
                          << 6 * One, 6 * One + 1500 >> >>, "grass") }

ScatterTexts == SeqUpTo(ScatterFeatures, MaxFeatures)

GroundCover == [tree |-> None, rock |-> None, grass |-> Some(ModelData(None, Some(GrassObj), None))]

\* the same with a custom tree whose container is one byte long
BrokenTree == [GroundCover EXCEPT !.tree = Some(ModelData(Some(<< 0 >>), None, None))]

\* the values Math.random() returns during one call
RandomStreams ==
  { << 0, 0, 0, 0 >>, << 250, 750, 500, 250 >>, << 750, 250, 250, 999 >> }

----------------------------------------------------------------------------
(* The operations, each called on the input chosen at the start. *)

IdleObj == objText = None /\ mtlText = None /\ objCalls = << >> /\ otherCalls = << >>
IdlePly == plyText = None /\ plyCalls = << >>
IdleGlb == scene = None /\ glbFile = None /\ builds = << >> /\ imports = << >>
IdleGeo == geoInput = None /\ geoCalls = << >> /\ cachedTree = None /\ cachedRock = None

InitObj ==
  /\ objText \in { Some(t) : t \in ObjTexts }
  /\ mtlText \in MtlTexts
  /\ objCalls = << >>
  /\ otherCalls = << >>
  /\ IdlePly /\ IdleGlb /\ IdleGeo

InitLibrary ==
  /\ objText = Some(SquareBlock \o << usemtl("A"), f(<< 1, 2, 3 >>) >>)
  /\ mtlText \in LibraryTexts
  /\ objCalls = << >>
  /\ otherCalls = << >>
  /\ IdlePly /\ IdleGlb /\ IdleGeo

InitFaces ==
  /\ objText \in { Some(t) : t \in FaceTexts }
  /\ mtlText \in { None, OtherMtlText }
  /\ objCalls = << >>
  /\ otherCalls = << >>
  /\ IdlePly /\ IdleGlb /\ IdleGeo

InitTagged ==
  /\ objText \in { Some(t) : t \in TaggedTexts }
  /\ mtlText \in TaggedLibraries
  /\ objCalls = << >>
  /\ otherCalls = << >>
  /\ IdlePly /\ IdleGlb /\ IdleGeo

InitPly ==
  /\ plyText \in { Some(t) : t \in PlyTexts }
  /\ plyCalls = << >>
  /\ IdleObj /\ IdleGlb /\ IdleGeo

InitHeader ==
  /\ plyText \in { Some(t) : t \in HeaderTexts }
  /\ plyCalls = << >>
  /\ IdleObj /\ IdleGlb /\ IdleGeo

InitGlb ==
  /\ \/ scene \in { Some(l) : l \in ShapeLists } /\ glbFile = None
     \/ scene = None /\ glbFile \in { Some(b) : b \in ForeignFiles }
  /\ builds = << >>
  /\ imports = << >>
  /\ IdleObj /\ IdlePly /\ IdleGeo

InitImport ==
  /\ scene = None
  /\ glbFile \in { Some(b) : b \in ImportFiles }
  /\ builds = << >>
  /\ imports = << >>
  /\ IdleObj /\ IdlePly /\ IdleGeo

InitScatter ==
  /\ geoInput \in { Some([features |-> fs, customModels |-> cm]) :
                      fs \in ScatterTexts, cm \in { GroundCover, BrokenTree } }
  /\ geoCalls = << >>
  /\ cachedTree = None
  /\ cachedRock = None
  /\ IdleObj /\ IdlePly /\ IdleGlb

InitTextured ==
  /\ scene \in { Some(l) : l \in TexturedScenes }
  /\ glbFile = None
  /\ builds = << >>
  /\ imports = << >>
  /\ IdleObj /\ IdlePly /\ IdleGeo

InitSphere ==
  /\ scene \in { Some(<< Shape(createSphere(r, sc, st), << 0, 0, 0 >>, None, None, None) >>) :
                   r \in SphereRadii, sc \in SphereSectors, st \in SphereStacks }
  /\ glbFile = None
  /\ builds = << >>
  /\ imports = << >>
  /\ IdleObj /\ IdlePly /\ IdleGeo

InitFlat ==
  /\ scene \in { Some(l) : l \in FlatScenes }
  /\ glbFile = None
  /\ builds = << >>
  /\ imports = << >>
  /\ IdleObj /\ IdlePly /\ IdleGeo

InitGeo ==
  /\ geoInput \in { Some([features |-> fs, customModels |-> cm]) :
                      fs \in GeoTexts, cm \in CustomModelChoices }
  /\ geoCalls = << >>
  /\ cachedTree = None
  /\ cachedRock = None
  /\ IdleObj /\ IdlePly /\ IdleGlb

ParseObjCall ==
  /\ objText # None
  /\ Len(objCalls) < MaxCalls
  /\ objCalls' = Append(objCalls, [parseObjRun(objText[1], mtlText) EXCEPT !.after = Len(otherCalls)])
  /\ UNCHANGED << objText, mtlText, otherCalls, plyVars, glbVars, geoVars >>

OtherObjCall ==
  /\ objText # None
  /\ Len(otherCalls) < 1
  /\ otherCalls' = Append(otherCalls, parseObj(OtherObjText, OtherMtlText))
  /\ UNCHANGED << objText, mtlText, objCalls, plyVars, glbVars, geoVars >>

ParsePlyCall ==
  /\ plyText # None
  /\ Len(plyCalls) < MaxCalls
  /\ plyCalls' = Append(plyCalls, parsePlyRun(plyText[1]))
  /\ UNCHANGED << plyText, objVars, glbVars, geoVars >>

Build(op, input, run) == [op |-> op, input |-> input, run |-> run, out |-> run.out]

\* the calls made on the scene itself
OwnBuilds == SelectSeq(builds, LAMBDA c : c.op # "other")

\* buildGlb(scene)
BuildGlbCall ==
  /\ scene # None
  /\ Len(OwnBuilds) < MaxCalls
  /\ builds' = Append(builds, Build("buildGlb", scene[1], buildGlbRun(scene[1])))
  /\ UNCHANGED << scene, glbFile, imports, objVars, plyVars, geoVars >>

\* buildGltf(scene)
BuildGltfCall ==
  /\ scene # None
  /\ Len(OwnBuilds) < MaxCalls
  /\ builds' = Append(builds, Build("buildGltf", scene[1], [out |-> buildGltf(scene[1])]))
  /\ UNCHANGED << scene, glbFile, imports, objVars, plyVars, geoVars >>

\* a serialization of another scene, between two calls on the scene
OtherBuildCall ==
  /\ scene # None
  /\ Len(builds) = Len(OwnBuilds)
  /\ builds' = Append(builds, Build("other", OtherShapes, buildGlbRun(OtherShapes)))
  /\ UNCHANGED << scene, glbFile, imports, objVars, plyVars, geoVars >>

\* parseGlb(bytes) on the container the latest buildGlb call returned, or on
\* the foreign file
ParseGlbCall ==
  /\ Len(imports) < MaxCalls
  /\ \E source \in {0, Len(builds)} :
       /\ IF source = 0 THEN glbFile # None
          ELSE /\ builds[source].op = "buildGlb"
               /\ \A k \in 1..Len(imports) : imports[k].source # source
       /\ imports' = Append(imports,
                       [source |-> source,
                        result |-> parseGlb(IF source = 0 THEN glbFile[1] ELSE builds[source].out)])
  /\ UNCHANGED << scene, glbFile, builds, objVars, plyVars, geoVars >>

\* parseGeoJsonToShapes(text, customModels); createTree and createRock fill
\* their caches when the call reaches them and no custom model replaces them
GeoCall ==
  /\ geoInput # None
  /\ Len(geoCalls) < MaxCalls
  /\ \E rnd \in RandomStreams :
       LET in == geoInput[1]
           hasAsset == \E i \in 1..Len(in.features) : in.features[i].type = "asset"
           treeModel == getModel(in.customModels.tree, createTree(cachedTree))
       IN  /\ geoCalls' = Append(geoCalls,
                 [rnd |-> rnd,
                  out |-> parseGeoJsonToShapes(in.features, in.customModels, rnd,
                                               cachedTree, cachedRock)])
           /\ cachedTree' = IF hasAsset /\ in.customModels.tree = None
                            THEN Some(createTree(cachedTree)) ELSE cachedTree
           /\ cachedRock' = IF hasAsset /\ treeModel.ok /\ in.customModels.rock = None
                            THEN Some(createRock(cachedRock)) ELSE cachedRock
  /\ UNCHANGED << geoInput, objVars, plyVars, glbVars >>

NextObj == ParseObjCall \/ OtherObjCall
NextGlb == BuildGlbCall \/ ParseGlbCall
NextPure == BuildGlbCall \/ BuildGltfCall \/ OtherBuildCall \/ GeoCall
NextFan == ParseObjCall \/ ParsePlyCall \/ GeoCall

NextFlat == BuildGlbCall \/ BuildGltfCall

SpecObj == InitObj /\ [][NextObj]_vars
SpecPly == InitPly /\ [][ParsePlyCall]_vars
SpecGlb == InitGlb /\ [][NextGlb]_vars
SpecGeo == InitGeo /\ [][GeoCall]_vars
SpecHeader == InitHeader /\ [][ParsePlyCall]_vars
SpecSphere == InitSphere /\ [][NextFlat]_vars
SpecLibrary == InitLibrary /\ [][ParseObjCall]_vars
SpecPure == (InitGlb \/ InitGeo) /\ [][NextPure]_vars
SpecFan == (InitObj \/ InitPly \/ InitGeo) /\ [][NextFan]_vars
SpecFlat == InitFlat /\ [][NextFlat]_vars
SpecScatter == InitScatter /\ [][GeoCall]_vars
SpecImport == InitImport /\ [][ParseGlbCall]_vars
SpecFaces == InitFaces /\ [][ParseObjCall]_vars
SpecTagged == InitTagged /\ [][ParseObjCall]_vars
SpecTextured == InitTextured /\ [][NextFlat]_vars
SpecParts == InitTextured /\ [][BuildGlbCall]_vars
SpecMaterials == InitTextured /\ [][BuildGlbCall]_vars



Init == InitObj \/ InitPly \/ InitGlb \/ InitGeo
Next == ParseObjCall \/ OtherObjCall \/ ParsePlyCall \/ BuildGlbCall \/ ParseGlbCall \/ GeoCall
Spec == Init /\ [][Next]_vars

----------------------------------------------------------------------------
(* Properties of the serializer and of the container importer.             *)

\* the parseGlb calls made on a container that buildGlb returned
RoundTrips == { k \in 1..Len(imports) : imports[k].source > 0 }

\* the shape list whose container the k-th parseGlb call read
SourceOf(k) == builds[imports[k].source].input

\* a non-empty list of shapes that all come from a generator
GeneratorShapes(shapes) ==
  /\ shapes # << >>
  /\ \A i \in 1..Len(shapes) :
       \/ shapes[i].geometry = createCube(One)
       \/ shapes[i].geometry = createPyramid(One, 2 * One)
       \/ shapes[i].geometry = createSphere(One, 4, 2)

SumOfLengths(shapes, field) == Len(Flatten([i \in 1..Len(shapes) |-> shapes[i].geometry[field]]))

\* C1 as stated: parseGlb(buildGlb(shapes)) of a non-empty list of generator
\* shapes has as many vertices and indices as all the shapes together.
C1_SumOfAllShapes ==
  \A k \in RoundTrips :
    GeneratorShapes(SourceOf(k)) =>
      /\ imports[k].result.ok
      /\ Len(imports[k].result.data.positions) = SumOfLengths(SourceOf(k), "positions")
      /\ Len(imports[k].result.data.indices) = SumOfLengths(SourceOf(k), "indices")

\* C1, amended: parseGlb(buildGlb(shapes)) of a non-empty list of generator
\* shapes returns a Geometry with the vertex count and the index count of the
\* first shape of the list (the importer reads the first mesh only), which is
\* the sum over the list when the list has one shape.
C1_FirstShapeCounts ==
  \A k \in RoundTrips :
    GeneratorShapes(SourceOf(k)) =>
      /\ imports[k].result.ok
      /\ Len(imports[k].result.data.positions) = Len(SourceOf(k)[1].geometry.positions)
      /\ Len(imports[k].result.data.indices) = Len(SourceOf(k)[1].geometry.indices)
      /\ Len(SourceOf(k)) = 1 =>
           /\ Len(imports[k].result.data.positions) = SumOfLengths(SourceOf(k), "positions")
           /\ Len(imports[k].result.data.indices) = SumOfLengths(SourceOf(k), "indices")

\* a list of two different generator shapes was serialized and re-imported
C1_Witness ==
  \E k \in RoundTrips :
    /\ GeneratorShapes(SourceOf(k))
    /\ Len(SourceOf(k)) = 2
    /\ Len(SourceOf(k)[1].geometry.positions) # Len(SourceOf(k)[2].geometry.positions)
    /\ imports[k].result.ok
    /\ Len(imports[k].result.data.positions) = Len(SourceOf(k)[1].geometry.positions)

\* C2 as stated: parseGlb accepts every container buildGlb returns, the one
\* of the empty list and those of shapes with an empty geometry included.
C2_EveryContainerImports ==
  \A k \in RoundTrips : imports[k].result.ok

\* the buildGlb calls so far
GlbBuilds == { k \in 1..Len(builds) : builds[k].op = "buildGlb" }

\* the JSON text and the combined buffer that the k-th call wrapped
JsonOf(k) == builds[k].run.jsonBytes
BinaryOf(k) == builds[k].run.binaryBytes

RoundUp(n, alignment) == ((n + alignment - 1) \div alignment) * alignment

\* the bytes out[from + 1 .. to] all equal fill
FilledWith(out, from, to, fill) == \A i \in (from + 1)..to : out[i] = fill

\* C9: the output of buildGlb starts with magic 0x46546C67, version 2 and its
\* own byte length, all little-endian; the JSON payload is the text followed
\* by 0x20 bytes and the binary payload the buffer followed by 0x00 bytes, so
\* that every chunk header and payload starts at a multiple of 4 and the
\* total length is a multiple of 4.
C9_HeaderPaddingAlignment ==
  \A k \in GlbBuilds :
    LET out == builds[k].out
        json == JsonOf(k)
        bin == BinaryOf(k)
        jsonEnd == 20 + RoundUp(Len(json), 4)
    IN  /\ Len(out) >= 20
        /\ SubSeq(out, 1, 4) = << 103, 108, 84, 70 >>
        /\ SubSeq(out, 5, 8) = << 2, 0, 0, 0 >>
        /\ SubSeq(out, 9, 12) = << Len(out) % 256, (Len(out) \div 256) % 256,
                                   (Len(out) \div 65536) % 256, Len(out) \div 16777216 >>
        /\ Len(out) % 4 = 0
        /\ Len(out) >= jsonEnd
        /\ SubSeq(out, 21, 20 + Len(json)) = json
        /\ FilledWith(out, 20 + Len(json), jsonEnd, 32)
        /\ jsonEnd % 4 = 0
        /\ IF bin = << >> THEN Len(out) = jsonEnd
           ELSE /\ Len(out) = jsonEnd + 8 + RoundUp(Len(bin), 4)
                /\ SubSeq(out, jsonEnd + 9, jsonEnd + 8 + Len(bin)) = bin
                /\ FilledWith(out, jsonEnd + 8 + Len(bin), Len(out), 0)

\* a container whose JSON text and whose buffer both needed padding
C9_Witness ==
  \E k \in GlbBuilds :
    /\ Len(JsonOf(k)) % 4 # 0
    /\ Len(BinaryOf(k)) % 4 # 0
    /\ builds[k].out[20 + Len(JsonOf(k)) + 1] = 32
    /\ builds[k].out[Len(builds[k].out)] = 0

\* the chunk_length fields of the k-th container
JsonChunkLength(k) == GetUint32(builds[k].out, 12)
BinaryChunkLength(k) == GetUint32(builds[k].out, 20 + RoundUp(Len(JsonOf(k)), 4))

\* C10 as stated: each chunk_length field holds the length of the payload
\* before padding.
C10_LengthBeforePadding ==
  \A k \in GlbBuilds :
    /\ JsonChunkLength(k) = Len(JsonOf(k))
    /\ BinaryOf(k) # << >> => BinaryChunkLength(k) = Len(BinaryOf(k))

\* C10, amended: each chunk_length field holds the length of the payload
\* after padding, the next multiple of 4 at or above the unpadded length.
C10_LengthAfterPadding ==
  \A k \in GlbBuilds :
    /\ JsonChunkLength(k) = RoundUp(Len(JsonOf(k)), 4)
    /\ BinaryOf(k) # << >> => BinaryChunkLength(k) = RoundUp(Len(BinaryOf(k)), 4)

\* a container whose JSON chunk and binary chunk were both padded
C10_Witness ==
  \E k \in GlbBuilds :
    /\ Len(JsonOf(k)) % 4 # 0
    /\ Len(BinaryOf(k)) % 4 # 0
    /\ JsonChunkLength(k) > Len(JsonOf(k))
    /\ BinaryChunkLength(k) > Len(BinaryOf(k))

----------------------------------------------------------------------------
(* Properties of the Geometry values the pipeline produces.                *)

\* indices.length % 3 == 0 and every index < positions.length / 3
WellIndexed(g) ==
  /\ Len(g.indices) % 3 = 0
  /\ \A i \in 1..Len(g.indices) : 3 * g.indices[i] < Len(g.positions)

\* the terrain shapes of a converter result: neither placed models (no
\* color) nor scattered instances (rotated)
TerrainShapes(shapes) == SelectSeq(shapes, LAMBDA s : s.rotation = None /\ s.color # None)

\* C3 as stated: every Geometry returned by parseObj, parsePly, parseGlb, the
\* generators and the converter's terrain builder has a multiple of 3
\* indices, each below the number of vertices.
C3_EveryGeometryWellIndexed ==
  /\ \A k \in 1..Len(objCalls) : WellIndexed(objCalls[k].geometry)
  /\ \A k \in 1..Len(plyCalls) : plyCalls[k].ok => WellIndexed(plyCalls[k].geometry[1])
  /\ \A k \in 1..Len(imports) : imports[k].result.ok => WellIndexed(imports[k].result.data)
  /\ scene # None => \A i \in 1..Len(scene[1]) : WellIndexed(scene[1][i].geometry)
  /\ \A k \in 1..Len(geoCalls) :
       geoCalls[k].out.ok =>
         \A i \in 1..Len(TerrainShapes(geoCalls[k].out.data)) :
           WellIndexed(TerrainShapes(geoCalls[k].out.data)[i].geometry)

\* positions.length == normals.length, and colors.length == positions.length
\* when colors are present
ParallelArrays(g) ==
  /\ Len(g.positions) = Len(g.normals)
  /\ g.colors # None => Len(g.colors[1]) = Len(g.positions)

\* C4 as stated: every Geometry returned by parseObj or parsePly has as many
\* normal components as position components, and as many color components
\* when it has colors, whatever the number of coordinates of a vertex record.
C4_ParallelAttributeArrays ==
  /\ \A k \in 1..Len(objCalls) : ParallelArrays(objCalls[k].geometry)
  /\ \A k \in 1..Len(plyCalls) : plyCalls[k].ok => ParallelArrays(plyCalls[k].geometry[1])

----------------------------------------------------------------------------
(* Properties of the importers' and the converter's triangulation.         *)

\* the number of triangles of a record that lists n vertices
TrianglesOf(n) == IF n >= 3 THEN n - 2 ELSE 0

\* triangles[base + 1 .. base + TrianglesOf(Len(listed))] are the fan of the
\* listed vertices: the i-th is (v0, v_i, v_{i+1})
IsFanAt(triangles, base, listed) ==
  \A i \in 1..TrianglesOf(Len(listed)) :
    triangles[base + i] = << listed[1], listed[i + 1], listed[i + 2] >>

\* triangles is the concatenation of the fans of the records, in order
IsFanOfEach(triangles, records) ==
  LET bases == OffsetsOf([k \in 1..Len(records) |-> TrianglesOf(Len(records[k]))], 1, 0)
  IN  /\ Len(triangles) = IF records = << >> THEN 0
                          ELSE bases[Len(records)] + TrianglesOf(Len(records[Len(records)]))
      /\ \A k \in 1..Len(records) : IsFanAt(triangles, bases[k], records[k])

\* the vertex lists of the face records of a mesh text, 0-based
ObjFaceRecords(lines) ==
  LET faceLines == SelectSeq(lines, LAMBDA l : l.type = "f")
  IN  [k \in 1..Len(faceLines) |->
         [j \in 1..Len(faceLines[k].nums) |-> FaceIndex(faceLines[k].nums[j])]]

\* the vertex lists of the face records of a vertex-property text: the
\* indices that follow the count field.  A record whose count field is below
\* 3 (or missing, or no number) is a face of fewer than 3 vertices.
PlyFaceLists(lines) ==
  LET h == PlyHeader(lines)
      record(k) == lines[h.headerEnd + h.vertexCount + k].nums
      declared(k) == IF record(k) = << >> THEN NaN ELSE parseInt(record(k)[1])
  IN  [k \in 1..h.faceCount |->
         IF declared(k) = NaN \/ declared(k) < 3 THEN << >>
         ELSE [j \in 1..(Len(record(k)) - 1) |-> parseInt(record(k)[j + 1])]]

\* the rings of the terrain features of a geographic text, as vertex numbers
TerrainRings(features) ==
  LET terrain == SelectSeq(features, LAMBDA ft : /\ ft.geometryType = "Polygon"
                                                 /\ ft.type \in {"asset", "grass", "river"})
  IN  [k \in 1..Len(terrain) |-> [j \in 1..Len(terrain[k].ring) |-> j - 1]]

\* the index buffer of a Geometry as a sequence of triangles
TrianglesIn(indices) ==
  [t \in 1..(Len(indices) \div 3) |-> << indices[3 * t - 2], indices[3 * t - 1], indices[3 * t] >>]

SquareWithFace(refs) ==
  /\ objText # None
  /\ SubSeq(objText[1], 1, 4) = SquareBlock
  /\ SelectSeq(objText[1], LAMBDA l : l.type = "v") = SquareBlock
  /\ SelectSeq(objText[1], LAMBDA l : l.type = "f") = << f(refs) >>

\* n repeated once per corner of two triangles
SixTimes(n) == n \o n \o n \o n \o n \o n

\* C6: parseObj on the unit square of the z = 0 plane and the single face
\* record "f 1 2 3 4" returns 2 triangles, 18 position floats, the indices
\* 0..5 and the normal (0,0,1) at every corner; with the winding reversed,
\* "f 4 3 2 1", the normal is (0,0,-1).
C6_UnitSquare ==
  \A k \in 1..Len(objCalls) :
    /\ SquareWithFace(<< 1, 2, 3, 4 >>) =>
         /\ Len(objCalls[k].faces) = 2
         /\ Len(objCalls[k].geometry.positions) = 18
         /\ objCalls[k].geometry.indices = << 0, 1, 2, 3, 4, 5 >>
         /\ objCalls[k].geometry.normals = SixTimes(<< 0, 0, One >>)
    /\ SquareWithFace(<< 4, 3, 2, 1 >>) =>
         /\ Len(objCalls[k].faces) = 2
         /\ Len(objCalls[k].geometry.positions) = 18
         /\ objCalls[k].geometry.indices = << 0, 1, 2, 3, 4, 5 >>
         /\ objCalls[k].geometry.normals = SixTimes(<< 0, 0, -One >>)

\* parseObj has returned for the square with the face record "f 1 2 3 4"
C6_Witness ==
  /\ SquareWithFace(<< 1, 2, 3, 4 >>)
  /\ objCalls # << >>
  /\ objCalls[1].geometry.normals = SixTimes(<< 0, 0, One >>)

----------------------------------------------------------------------------
(* Properties of repeated calls of the converter and of the serializers.   *)

\* two serializer calls of the same kind were given the same shape list
SameBuild(i, j) == builds[i].op = builds[j].op /\ builds[i].input = builds[j].input

\* C8 as stated: two invocations of parseGeoJsonToShapes, of buildGltf or of
\* buildGlb with equal input return equal output, whatever was called before.
C8_EqualInputEqualOutput ==
  /\ \A i, j \in 1..Len(geoCalls) : geoCalls[i].out = geoCalls[j].out
  /\ \A i, j \in 1..Len(builds) : SameBuild(i, j) => builds[i].out = builds[j].out

\* a scattered instance is the only kind of shape that is rotated
Scattered(shape) == shape.rotation # None

\* a converter result without the placement of its scattered instances
WithoutPlacement(out) ==
  IF ~out.ok THEN out
  ELSE [out EXCEPT !.data = [k \in 1..Len(out.data) |->
          IF Scattered(out.data[k])
          THEN [out.data[k] EXCEPT !.translation = None, !.rotation = None, !.scale = None]
          ELSE out.data[k]]]

\* C8, amended: buildGltf and buildGlb are functions of their input, no
\* de-duplication entry surviving a call; parseGeoJsonToShapes is a function
\* of its input and of the values Math.random() returns during the call: two
\* invocations with equal input return the same shapes except for the
\* translations, rotations and scales of the scattered instances, and these
\* are equal too when the random values are equal (so the outputs are equal
\* whenever nothing is scattered), whatever was called before.
C8_EqualUpToRandomPlacement ==
  /\ \A i, j \in 1..Len(builds) : SameBuild(i, j) => builds[i].out = builds[j].out
  /\ \A i, j \in 1..Len(geoCalls) :
       /\ WithoutPlacement(geoCalls[i].out) = WithoutPlacement(geoCalls[j].out)
       /\ geoCalls[i].rnd = geoCalls[j].rnd => geoCalls[i].out = geoCalls[j].out
       /\ (geoCalls[i].out.ok /\ \A k \in 1..Len(geoCalls[i].out.data) :
                                    ~Scattered(geoCalls[i].out.data[k]))
            => geoCalls[i].out = geoCalls[j].out

\* two converter calls on a text whose grass is scattered, the first with the
\* caches empty and the second with the caches filled, drew the same values
C8_Witness ==
  /\ Len(geoCalls) = 2
  /\ cachedTree # None
  /\ geoCalls[1].rnd = geoCalls[2].rnd
  /\ geoCalls[1].out.ok
  /\ \E k \in 1..Len(geoCalls[1].out.data) : Scattered(geoCalls[1].out.data[k])
  /\ geoCalls[1].out = geoCalls[2].out

----------------------------------------------------------------------------
(* Materials and buffer views of a scene of three flat-coloured shapes.     *)

\* the document that the k-th call wrote, read back from its JSON text
DocumentOf(k) == JsonParse(JsonOf(k))[1]

FlatBuilds == { k \in GlbBuilds : builds[k].input \in FlatScenes }

PrimitivesOf(doc) == Flatten([i \in 1..Len(doc.meshes) |-> doc.meshes[i].primitives])

\* the number of mesh primitives that reference the material numbered m
ReferencesTo(primitives, m) ==
  Cardinality({ p \in 1..Len(primitives) : primitives[p].material = Some(m) })

HasUvs(shapes) == \E i \in 1..Len(shapes) : Len(Elems(shapes[i].geometry.uvs)) > 0

\* three materials, each referenced by one primitive; the first, second and
\* last buffer view span the positions, normals and indices of all the shapes
ThreeMaterialsAndViews(k, doc) ==
  /\ Len(doc.materials) = 3
  /\ \A m \in 0..2 : ReferencesTo(PrimitivesOf(doc), m) = 1
  /\ Len(doc.bufferViews) >= 3
  /\ doc.bufferViews[1].byteLength = 4 * SumOfLengths(builds[k].input, "positions")
  /\ doc.bufferViews[2].byteLength = 4 * SumOfLengths(builds[k].input, "normals")
  /\ doc.bufferViews[Len(doc.bufferViews)].byteLength
       = 2 * SumOfLengths(builds[k].input, "indices")

\* the UV view: present exactly when a shape has UVs, and then the third of four
UvView(k, doc) ==
  IF HasUvs(builds[k].input)
  THEN /\ Len(doc.bufferViews) = 4
       /\ doc.bufferViews[3].byteLength
            = 4 * Len(Flatten([i \in 1..3 |-> Elems(builds[k].input[i].geometry.uvs)]))
  ELSE Len(doc.bufferViews) = 3

ExactlyThreeViews(k, doc) == ThreeMaterialsAndViews(k, doc) /\ Len(doc.bufferViews) = 3

\* C11 as stated: the document of 3 shapes with pairwise distinct flat colors
\* (no vertex colors, no textures) has exactly 3 materials, each referenced by
\* exactly one mesh primitive, and exactly 3 buffer views (positions, normals,
\* indices) whose byteLength is the sum of the shapes' byte lengths.
C11_ThreeBufferViews == \A k \in FlatBuilds : ExactlyThreeViews(k, DocumentOf(k))

ThreeViewsAndUvs(k, doc) == ThreeMaterialsAndViews(k, doc) /\ UvView(k, doc)

\* C11, amended: the same 3 materials and the same three views, which are the
\* only buffer views when no shape has UVs; when a shape has UVs a fourth view
\* holds the UVs of all the shapes.
C11_ThreeViewsWithoutUvs == \A k \in FlatBuilds : ThreeViewsAndUvs(k, DocumentOf(k))

\* a scene with a cube and a triangle has been serialized: four buffer views
C11_Witness ==
  \E k \in FlatBuilds :
    /\ HasUvs(builds[k].input)
    /\ \E i \in 1..3 : builds[k].input[i].geometry.uvs = None
    /\ Len(DocumentOf(k).bufferViews) = 4
    /\ Len(DocumentOf(k).materials) = 3

----------------------------------------------------------------------------
(* Scattering of the ground-cover model over the triangles of a grass       *)
(* terrain.  Areas and the hull test are computed in whole numbers on the   *)
(* coordinates of the terrain shape.                                        *)

\* the (x, z) of corner c of triangle t of a terrain geometry
CornerOf(g, t, c) ==
  << g.positions[3 * g.indices[3 * (t - 1) + c] + 1],
     g.positions[3 * g.indices[3 * (t - 1) + c] + 3] >>

\* twice the area of a triangle, in units of 1 / (One * One)
DoubleArea(p1, p2, p3) ==
  LET Abs(d) == IF d < 0 THEN -d ELSE d
  IN  Abs(p1[1] * (p2[2] - p3[2]) + p2[1] * (p3[2] - p1[2]) + p3[1] * (p1[2] - p2[2]))

\* floor(A * 2.0) for the triangle t of the geometry
InstancesOn(g, t) == DoubleArea(CornerOf(g, t, 1), CornerOf(g, t, 2), CornerOf(g, t, 3)) \div (One * One)

RECURSIVE InstancesUpTo(_, _)
InstancesUpTo(g, t) == IF t = 0 THEN 0 ELSE InstancesUpTo(g, t - 1) + InstancesOn(g, t)

\* on which side of the line from a to b the point p lies
SideOf(a, b, p) == (b[1] - a[1]) * (p[2] - a[2]) - (b[2] - a[2]) * (p[1] - a[1])

\* p = a*p1 + b*p2 + c*p3 for some a, b, c >= 0 with a + b + c = 1
InConvexHull(p1, p2, p3, p) ==
  \/ SideOf(p1, p2, p) >= 0 /\ SideOf(p2, p3, p) >= 0 /\ SideOf(p3, p1, p) >= 0
  \/ SideOf(p1, p2, p) <= 0 /\ SideOf(p2, p3, p) <= 0 /\ SideOf(p3, p1, p) <= 0

GrassTerrain(shape) == ~Scattered(shape) /\ shape.geometry.texture = Some(GRASS_TEXTURE)

\* the number of scattered instances that follow the shape numbered i
InstancesAfter(shapes, i) ==
  Cardinality({ j \in (i + 1)..Len(shapes) : \A m \in (i + 1)..j : Scattered(shapes[m]) })

\* the shapes after the grass terrain numbered i: for each triangle in turn
\* its floor(A * 2.0) instances, each within the triangle
ScatteredOver(shapes, i, g) ==
  /\ InstancesAfter(shapes, i) = InstancesUpTo(g, Len(g.indices) \div 3)
  /\ \A t \in 1..(Len(g.indices) \div 3) :
       \A n \in (InstancesUpTo(g, t - 1) + 1)..InstancesUpTo(g, t) :
         /\ i + n <= Len(shapes)
         /\ Scattered(shapes[i + n])
         /\ InConvexHull(CornerOf(g, t, 1), CornerOf(g, t, 2), CornerOf(g, t, 3),
                         << shapes[i + n].translation[1], shapes[i + n].translation[3] >>)

\* the calls that were given a custom ground-cover model and returned shapes
ScatterCalls ==
  { k \in 1..Len(geoCalls) : geoCalls[k].out.ok /\ geoInput[1].customModels.grass # None }

\* C12: with a custom ground-cover model every terrain triangle of a 'grass'
\* feature of projected area A receives exactly floor(A * 2.0) scattered
\* instances, and the (x, z) of each instance is a combination of the
\* triangle's vertices with non-negative weights that sum to 1, whatever the
\* random samples.
C12_CountAndConvexHull ==
  \A k \in ScatterCalls :
    \A i \in 1..Len(geoCalls[k].out.data) :
      GrassTerrain(geoCalls[k].out.data[i]) =>
        ScatteredOver(geoCalls[k].out.data, i, geoCalls[k].out.data[i].geometry)

\* a triangle of area 2 has received its 4 instances, away from its corners
C12_Witness ==
  \E k \in ScatterCalls :
    \E i \in 1..Len(geoCalls[k].out.data) :
      /\ GrassTerrain(geoCalls[k].out.data[i])
      /\ Len(geoCalls[k].out.data[i].geometry.indices) = 3
      /\ InstancesOn(geoCalls[k].out.data[i].geometry, 1) = 4
      /\ InstancesAfter(geoCalls[k].out.data, i) = 4
      /\ geoCalls[k].out.data[i + 1].translation
           # << geoCalls[k].out.data[i].geometry.positions[1],
                geoCalls[k].out.data[i].geometry.positions[2],
                geoCalls[k].out.data[i].geometry.positions[3] >>


----------------------------------------------------------------------------
(* The converter on an input without a boundary feature.                    *)

NoAsset == geoInput # None /\ \A i \in 1..Len(geoInput[1].features) :
                                geoInput[1].features[i].type # "asset"

\* C13: parseGeoJsonToShapes fails whenever no feature is tagged 'asset', and
\* it fails before it resolves a model (the error is the missing boundary even
\* when a custom model cannot be read, and the stock models stay unparsed) and
\* before it emits a shape.
C13_FailsBeforeModelsAndShapes ==
  NoAsset =>
    /\ \A k \in 1..Len(geoCalls) :
         /\ ~geoCalls[k].out.ok
         /\ geoCalls[k].out.error = "GeoJSON must contain a feature with 'type: \"asset\"'"
         /\ geoCalls[k].out.data = << >>
    /\ cachedTree = None
    /\ cachedRock = None

\* the converter was called on grass polygons alone, with an unreadable custom tree
C13_Witness ==
  /\ NoAsset
  /\ geoInput[1].features # << >>
  /\ geoInput[1].customModels = BrokenTree
  /\ geoCalls # << >>

----------------------------------------------------------------------------
(* The importer on containers that are not well formed.                     *)

\* the parseGlb calls made on the file
FileImports == { k \in 1..Len(imports) : imports[k].source = 0 /\ glbFile # None }

\* the little-endian word at the offset, when the file has it
WordAt(b, offset) == Slice(b, offset, offset + 4)

RECURSIVE ChunkTypesFrom(_, _)
\* the types of the chunks that start at the offset, each chunk taken by its
\* declared length, until the buffer ends
ChunkTypesFrom(b, offset) ==
  IF offset + 8 > Len(b) THEN { }
  ELSE { WordAt(b, offset + 4) }
         \cup ChunkTypesFrom(b, offset + 8 + b[offset + 1] + 256 * b[offset + 2])

\* the length of the JSON chunk of a file whose chunks are shorter than 64 KiB
JsonLengthOf(b) == b[13] + 256 * b[14]

WrongMagic(b) == WordAt(b, 0) # << 103, 108, 84, 70 >>
WrongVersion(b) == WordAt(b, 4) # << 2, 0, 0, 0 >>
FirstChunkNotJson(b) == WordAt(b, 16) # << 74, 83, 79, 78 >>
NoBinaryChunk(b) == Len(b) < 20 \/ << 66, 73, 78, 0 >> \notin ChunkTypesFrom(b, 20 + JsonLengthOf(b))
NoMesh(b) ==
  Len(b) < 20 \/ LET Empty(doc) == doc # None /\ doc[1].meshes = << >>
                 IN  Empty(JsonParse(Slice(b, 20, 20 + JsonLengthOf(b))))

NotWellFormed(b) ==
  WrongMagic(b) \/ WrongVersion(b) \/ FirstChunkNotJson(b) \/ NoBinaryChunk(b) \/ NoMesh(b)

\* C14: parseGlb fails, and returns no Geometry, on a file whose first four
\* bytes are not the magic, whose version is not 2, whose first chunk is not
\* JSON, that has no binary chunk after the JSON chunk, or whose document has
\* no mesh.
C14_NotWellFormedFails ==
  \A k \in FileImports :
    NotWellFormed(glbFile[1]) => ~imports[k].result.ok /\ imports[k].result.data = << >>

\* the importer has run on a file with the right header, a JSON chunk and a
\* chunk of another type, and no binary chunk
C14_Witness ==
  /\ FileImports # { }
  /\ ~WrongMagic(glbFile[1]) /\ ~WrongVersion(glbFile[1]) /\ ~FirstChunkNotJson(glbFile[1])
  /\ ChunkTypesFrom(glbFile[1], 20 + JsonLengthOf(glbFile[1])) = { << 7, 0, 0, 0 >> }
  /\ ~NoMesh(glbFile[1])

----------------------------------------------------------------------------
(* The mesh-text importer on texts without vertices and on faces that name  *)
(* no vertex.                                                               *)

NoVertexRecord(lines) == \A i \in 1..Len(lines) : lines[i].type # "v"

EmptyObjGeometry(g) == g.positions = << >> /\ g.normals = << >> /\ g.indices = << >>

\* C15: parseObj fails when the text has no vertex position record and in no
\* other case; a text with positions and no valid face returns an empty
\* Geometry without error.
C15_FailsOnlyWithoutPositions ==
  \A k \in 1..Len(objCalls) :
    LET Holds(out) ==
          /\ out.ok => out.data = objCalls[k].geometry
          /\ NoVertexRecord(objText[1]) <=> ~out.ok
          /\ (~NoVertexRecord(objText[1]) /\ objCalls[k].faces = << >>)
                => out.ok /\ EmptyObjGeometry(out.data)
    IN  Holds(parseObjOutcome(objText[1], mtlText))

\* a face record with a reference that names none of the n vertices: not a
\* number, zero, negative, or above n
NamesNoVertex(line, n) ==
  /\ line.type = "f"
  /\ \E j \in 1..Len(line.nums) :
       \/ line.nums[j] = BadToken
       \/ line.nums[j] < One
       \/ line.nums[j] > n * One

\* the text without such records
WithoutBadFaces(lines) ==
  LET n == Len(SelectSeq(lines, LAMBDA l : l.type = "v"))
  IN  SelectSeq(lines, LAMBDA l : ~NamesNoVertex(l, n))

\* C16: in parseObj a face record with an out-of-range, zero, negative or
\* non-numeric reference contributes no triangle, also when it lists more
\* than 3 vertices and one reference is bad, and the triangles of the other
\* records are unchanged: the Geometry is that of the text without the record.
C16_BadFaceContributesNothing ==
  \A k \in 1..Len(objCalls) :
    objCalls[k].geometry = parseObj(WithoutBadFaces(objText[1]), mtlText)

----------------------------------------------------------------------------
(* The importer on meshes of several primitives.                            *)

\* the document of a file and the payload of the chunk that follows its JSON chunk
DocumentIn(b) == JsonParse(Slice(b, 20, 20 + JsonLengthOf(b)))[1]
BinaryIn(b) == Slice(b, 28 + JsonLengthOf(b), Len(b))

\* a well-formed file whose binary chunk follows the JSON chunk and whose
\* first mesh has a primitive
HasPrimitives(b) ==
  /\ ~NotWellFormed(b)
  /\ WordAt(b, 24 + JsonLengthOf(b)) = << 66, 73, 78, 0 >>
  /\ DocumentIn(b).meshes[1].primitives # << >>

\* the primitives of the first mesh that have a POSITION attribute
Positioned(b) ==
  SelectSeq(DocumentIn(b).meshes[1].primitives, LAMBDA p : p.attributes.POSITION # None)

\* the file with the other primitives taken out of its first mesh
WithoutSkipped(b) ==
  ContainerOf(JsonStringify([DocumentIn(b) EXCEPT !.meshes[1].primitives = Positioned(b)]),
              << ChunkOf(5130562, BinaryIn(b)) >>)

\* C17: parseGlb skips a primitive of the first mesh that has no POSITION and
\* merges the others (the result is that of the file without the primitive);
\* when no primitive of the first mesh has POSITION the import fails.
C17_SkipsOrFails ==
  \A k \in FileImports :
    HasPrimitives(glbFile[1]) =>
      IF Positioned(glbFile[1]) # << >>
      THEN imports[k].result = parseGlb(WithoutSkipped(glbFile[1]))
      ELSE ~imports[k].result.ok

----------------------------------------------------------------------------
(* The images of a serialized scene.                                        *)

GltfBuilds == { k \in 1..Len(builds) : builds[k].op = "buildGltf" }

\* the bytes of the combined buffer of a scene, from the lengths of its arrays
BufferBytesOf(shapes) ==
  4 * (SumOfLengths(shapes, "positions") + SumOfLengths(shapes, "normals")
         + Len(Flatten([i \in 1..Len(shapes) |-> Elems(shapes[i].geometry.colors)]))
         + Len(Flatten([i \in 1..Len(shapes) |-> Elems(shapes[i].geometry.uvs)])))
    + 2 * SumOfLengths(shapes, "indices")

\* the document of the text that the k-th call (a buildGltf) returned: the
\* text before the characters of the buffer's base64 form
GltfDocumentOf(k) ==
  JsonParse(SubSeq(builds[k].out, 1,
                   Len(builds[k].out) - 4 * ((BufferBytesOf(builds[k].input) + 2) \div 3)))[1]

\* every image is a buffer view that lies within the binary payload
ImagesInBuffer(doc, binary) ==
  \A i \in 1..Len(doc.images) :
    /\ doc.images[i].uri = None
    /\ doc.images[i].bufferView # None
    /\ doc.images[i].bufferView[1] + 1 \in 1..Len(doc.bufferViews)
    /\ doc.bufferViews[doc.images[i].bufferView[1] + 1].byteOffset
         + doc.bufferViews[doc.images[i].bufferView[1] + 1].byteLength <= Len(binary)

\* every image is a data URI
ImagesInline(doc) ==
  \A i \in 1..Len(doc.images) :
    /\ doc.images[i].bufferView = None
    /\ doc.images[i].uri # None
    /\ doc.images[i].uri[1] < FirstPlainUri

\* as many images as the scene has distinct textures
TexturesOf(shapes) ==
  UNION { { shapes[i].geometry.primitives[1][p].texture :
              p \in 1..Len(Elems(shapes[i].geometry.primitives)) }
            \cup (IF shapes[i].geometry.primitives = None THEN { shapes[i].geometry.texture } ELSE { })
          : i \in 1..Len(shapes) } \ { None }

\* C18: in the output of buildGlb every texture image lies in the binary chunk
\* and is referenced by a buffer view, none carries a data URI; in the output
\* of buildGltf every texture image is an inline data URI.
C18_ImagesEmbeddedOrInline ==
  /\ \A k \in GlbBuilds :
       LET Holds(doc) == /\ Len(doc.images) = Cardinality(TexturesOf(builds[k].input))
                         /\ ImagesInBuffer(doc, BinaryOf(k))
       IN  Holds(DocumentOf(k))
  /\ \A k \in GltfBuilds :
       LET Holds(doc) == /\ Len(doc.images) = Cardinality(TexturesOf(builds[k].input))
                         /\ ImagesInline(doc)
       IN  Holds(GltfDocumentOf(k))

----------------------------------------------------------------------------
(* The merged index array and the sub-primitive ranges of an import.        *)

\* the vertices and the indices of a primitive, as its accessors declare them
VertexCountOf(doc, p) == doc.accessors[p.attributes.POSITION[1] + 1].count
IndexCountOf(doc, p) ==
  IF p.indices = None THEN VertexCountOf(doc, p) ELSE doc.accessors[p.indices[1] + 1].count

\* the j-th index of a primitive as the file holds it: a little-endian
\* integer of 2 or 4 bytes, or j - 1 when the primitive has no index accessor
SourceIndex(doc, binary, p, j) ==
  IF p.indices = None THEN j - 1
  ELSE LET a == doc.accessors[p.indices[1] + 1]
           size == IF a.componentType = 5125 THEN 4 ELSE 2
           at == doc.bufferViews[a.bufferView + 1].byteOffset + a.byteOffset + size * (j - 1)
       IN  IF size = 2 THEN binary[at + 1] + 256 * binary[at + 2]
           ELSE binary[at + 1] + 256 * binary[at + 2] + 65536 * binary[at + 3]
                  + 16777216 * binary[at + 4]

RECURSIVE VerticesBefore(_, _, _)
\* the vertices of the first q - 1 primitives of the list
VerticesBefore(doc, prims, q) ==
  IF q <= 1 THEN 0
  ELSE VerticesBefore(doc, prims, q - 1) + VertexCountOf(doc, prims[q - 1])

\* C19: in the Geometry returned by parseGlb the j-th index of the k-th
\* retained primitive is the primitive's j-th source index plus the vertex
\* count of the retained primitives before it, for every input.
C19_IndicesRebased ==
  \A k \in FileImports :
    (HasPrimitives(glbFile[1]) /\ imports[k].result.ok) =>
      LET Holds(doc, binary, prims, g) ==
            \A q \in 1..Len(prims) :
              \A j \in 1..IndexCountOf(doc, prims[q]) :
                g.indices[g.primitives[1][q].indicesOffset + j]
                  = SourceIndex(doc, binary, prims[q], j) + VerticesBefore(doc, prims, q)
      IN  Holds(DocumentIn(glbFile[1]), BinaryIn(glbFile[1]), Positioned(glbFile[1]),
                imports[k].result.data)

RECURSIVE IndicesBefore(_, _, _)
\* the indices of the first q - 1 primitives of the list
IndicesBefore(doc, prims, q) ==
  IF q <= 1 THEN 0
  ELSE IndicesBefore(doc, prims, q - 1) + IndexCountOf(doc, prims[q - 1])

\* C20: the sub-primitive ranges returned by parseGlb are in primitive order,
\* one per primitive that has positions and none for a skipped one; a range
\* starts where the ranges before it end and the counts add up to the length
\* of the merged index array.
C20_RangesPartitionIndices ==
  \A k \in FileImports :
    (HasPrimitives(glbFile[1]) /\ imports[k].result.ok) =>
      LET Holds(doc, prims, g, ranges) ==
            /\ Len(ranges) = Len(prims)
            /\ \A q \in 1..Len(ranges) :
                 /\ ranges[q].indicesCount = IndexCountOf(doc, prims[q])
                 /\ ranges[q].indicesOffset = IndicesBefore(doc, prims, q)
            /\ Len(g.indices) = IndicesBefore(doc, prims, Len(prims) + 1)
      IN  Holds(DocumentIn(glbFile[1]), Positioned(glbFile[1]), imports[k].result.data,
                imports[k].result.data.primitives[1])

\* a mesh of three primitives was imported whose second primitive has no
\* POSITION: two ranges, of one and of three triangles
C20_Witness ==
  /\ FileImports # { }
  /\ HasPrimitives(glbFile[1])
  /\ Len(DocumentIn(glbFile[1]).meshes[1].primitives) = 3
  /\ DocumentIn(glbFile[1]).meshes[1].primitives[2].attributes.POSITION = None
  /\ imports[1].result.ok
  /\ Len(imports[1].result.data.primitives[1]) = 2
  /\ imports[1].result.data.primitives[1][2].indicesOffset = 3
  /\ imports[1].result.data.primitives[1][2].indicesCount = 9

----------------------------------------------------------------------------
(* The layout of the combined buffer of a serialized scene.                 *)

\* the elements of an attribute array of a Geometry
ElementsOf(g, field) == IF field \in { "colors", "uvs" } THEN Elems(g[field]) ELSE g[field]

RECURSIVE SumOf(_, _)
SumOf(lengths, k) == IF k = 0 THEN 0 ELSE SumOf(lengths, k - 1) + lengths[k]

\* the elements of the attribute in the shapes before the s-th, and in all
ElementsBefore(shapes, s, field) ==
  SumOf([t \in 1..(s - 1) |-> Len(ElementsOf(shapes[t].geometry, field))], s - 1)
ElementsIn(shapes, field) == ElementsBefore(shapes, Len(shapes) + 1, field)

\* the byte lengths of the views in the order positions, normals, colors (if
\* any), UVs (if any), indices
ViewLengths(shapes) ==
  << 4 * ElementsIn(shapes, "positions"), 4 * ElementsIn(shapes, "normals") >>
    \o (IF ElementsIn(shapes, "colors") > 0 THEN << 4 * ElementsIn(shapes, "colors") >> ELSE << >>)
    \o (IF ElementsIn(shapes, "uvs") > 0 THEN << 4 * ElementsIn(shapes, "uvs") >> ELSE << >>)
    \o << 2 * ElementsIn(shapes, "indices") >>

\* the views lie back to back in that order and fill the buffer
BackToBack(doc, shapes) ==
  /\ [i \in 1..Len(doc.bufferViews) |-> doc.bufferViews[i].byteLength] = ViewLengths(shapes)
  /\ \A i \in 1..Len(doc.bufferViews) :
       doc.bufferViews[i].byteOffset = SumOf(ViewLengths(shapes), i - 1)
  /\ doc.buffers[1].byteLength = SumOf(ViewLengths(shapes), Len(ViewLengths(shapes)))

\* the bytes of one element of an accessor
ElementBytes(a) ==
  (IF a.componentType \in { 5120, 5121 } THEN 1 ELSE IF a.componentType \in { 5122, 5123 } THEN 2 ELSE 4)
    * (CASE a.type = "SCALAR" -> 1 [] a.type = "VEC2" -> 2 [] a.type = "VEC3" -> 3 [] OTHER -> 4)

\* the accessor of an attribute of the s-th shape starts after the bytes of
\* the shapes before it, in the view of its kind
AttributeAt(doc, shapes, s, ref, field, view) ==
  ref # None =>
    /\ doc.accessors[ref[1] + 1].bufferView = view - 1
    /\ doc.accessors[ref[1] + 1].byteOffset = 4 * ElementsBefore(shapes, s, field)

ShapeAccessors(doc, shapes, s) ==
  LET ranges == Elems(shapes[s].geometry.primitives)
      hasColors == ElementsIn(shapes, "colors") > 0
  IN  \A q \in 1..Len(doc.meshes[s].primitives) :
        LET p == doc.meshes[s].primitives[q]
        IN  /\ p.attributes.POSITION # None /\ p.attributes.NORMAL # None /\ p.indices # None
            /\ (p.attributes.COLOR_0 # None) = (ElementsOf(shapes[s].geometry, "colors") # << >>)
            /\ (p.attributes.TEXCOORD_0 # None) = (ElementsOf(shapes[s].geometry, "uvs") # << >>)
            /\ AttributeAt(doc, shapes, s, p.attributes.POSITION, "positions", 1)
            /\ AttributeAt(doc, shapes, s, p.attributes.NORMAL, "normals", 2)
            /\ AttributeAt(doc, shapes, s, p.attributes.COLOR_0, "colors", 3)
            /\ AttributeAt(doc, shapes, s, p.attributes.TEXCOORD_0, "uvs",
                           IF hasColors THEN 4 ELSE 3)
            /\ doc.accessors[p.indices[1] + 1].bufferView = Len(doc.bufferViews) - 1
            /\ doc.accessors[p.indices[1] + 1].byteOffset
                 = 2 * ElementsBefore(shapes, s, "indices")
                     + (IF ranges = << >> THEN 0 ELSE 2 * ranges[q].indicesOffset)

\* the bytes of every accessor lie inside its view
InsideViews(doc) ==
  \A i \in 1..Len(doc.accessors) :
    /\ doc.accessors[i].bufferView + 1 \in 1..Len(doc.bufferViews)
    /\ doc.accessors[i].byteOffset >= 0
    /\ doc.accessors[i].byteOffset + doc.accessors[i].count * ElementBytes(doc.accessors[i])
         <= doc.bufferViews[doc.accessors[i].bufferView + 1].byteLength

\* the latest call, when it was a buildGlb call; every call is the latest in
\* the state it leads to
LatestGlbBuild == GlbBuilds \cap { Len(builds) }

----------------------------------------------------------------------------
(* The materials of a serialized scene.                                     *)

\* the texture string of a material of the document, None when it has none
TextureOfMaterial(doc, m) ==
  IF m.baseColorTexture = None THEN None
  ELSE doc.images[doc.textures[m.baseColorTexture[1] + 1].source[1] + 1].uri

\* the primitive written for a range refers to a material with the range's
\* base color and texture, where the range has them
RangeMaterial(doc, p, range) ==
  /\ p.material # None
  /\ doc.accessors[p.indices[1] + 1].count = range.indicesCount
  /\ range.color # None => doc.materials[p.material[1] + 1].baseColorFactor = range.color
  /\ range.texture # None => TextureOfMaterial(doc, doc.materials[p.material[1] + 1]) = range.texture

\* C22: for a shape whose Geometry has sub-primitive ranges the serializer
\* emits one primitive per range, in range order, and the material of a
\* range's primitive has the range's base color when the range has one and
\* the range's texture when it has one, whatever else is serialized with it.
C22_RangeMaterials ==
  \A k \in GlbBuilds :
    LET Holds(doc, shapes) ==
          \A s \in 1..Len(shapes) :
            LET ranges == Elems(shapes[s].geometry.primitives)
            IN  ranges # << >> =>
                  /\ Len(doc.meshes[s].primitives) = Len(ranges)
                  /\ \A q \in 1..Len(ranges) :
                       RangeMaterial(doc, doc.meshes[s].primitives[q], ranges[q])
    IN  Holds(DocumentOf(k), builds[k].input)

\* the content key of a primitive of a shape: the texture, the one key of
\* vertex colors, or the color in use
ContentKey(shape, texture, color) ==
  IF texture # None THEN << "texture", texture[1] >>
  ELSE IF Elems(shape.geometry.colors) # << >> THEN << "vertex colors" >>
  ELSE << "color", IF color # None THEN color[1]
                   ELSE IF shape.color # None THEN shape.color[1]
                   ELSE << 800, 800, 800, One >> >>

\* the content keys of the primitives of a scene, shape by shape: one per
\* range, or one for a Geometry without ranges
KeysOf(shapes) ==
  Flatten([s \in 1..Len(shapes) |->
    IF Elems(shapes[s].geometry.primitives) # << >>
    THEN [q \in 1..Len(shapes[s].geometry.primitives[1]) |->
            ContentKey(shapes[s], shapes[s].geometry.primitives[1][q].texture,
                       shapes[s].geometry.primitives[1][q].color)]
    ELSE << ContentKey(shapes[s], shapes[s].geometry.texture, None) >>])

\* C23: within one serialization two primitives refer to the same material
\* if and only if their content keys are equal; the document has as many
\* materials as there are distinct keys and every material is referred to.
C23_MaterialPerContentKey ==
  \A k \in LatestGlbBuild :
    LET Holds(primitives, keys, materials) ==
          /\ Len(primitives) = Len(keys)
          /\ \A a, b \in 1..Len(primitives) :
               (primitives[a].material = primitives[b].material) <=> (keys[a] = keys[b])
          /\ Len(materials) = Cardinality({ keys[a] : a \in 1..Len(keys) })
          /\ \A m \in 1..Len(materials) : ReferencesTo(primitives, m - 1) > 0
        In(doc, shapes) == Holds(PrimitivesOf(doc), KeysOf(shapes), doc.materials)
    IN  In(DocumentOf(k), builds[k].input)

\* a scene was serialized in which two primitives share a material and a
\* third has another
C23_Witness ==
  /\ GlbBuilds # { }
  /\ Len(PrimitivesOf(DocumentOf(1))) >= 3
  /\ Len(DocumentOf(1).materials) >= 2
  /\ Len(DocumentOf(1).materials) < Len(PrimitivesOf(DocumentOf(1)))

----------------------------------------------------------------------------
(* The colors of an imported mesh text.                                     *)

\* the library of the call: empty without a material text
LibraryOf(mtl) == IF mtl = None THEN EmptyMap ELSE parseMtl(mtl[1])

DefinesColor(library) == \E n \in DOMAIN library : library[n].kd # None

\* the name set by the latest usemtl record before line i, "" when there is none
LatestDirective(lines, i) ==
  LET before == { j \in 1..(i - 1) : lines[j].type = "usemtl" }
  IN  IF before = { } THEN "" ELSE lines[CHOOSE j \in before : \A h \in before : h <= j].name

\* the diffuse color of the named material, or the gray
DiffuseOrGray(library, name) ==
  IF name \in DOMAIN library /\ library[name].kd # None THEN library[name].kd[1]
  ELSE << 800, 800, 800 >>

\* the number of triangles of the fan of a face record whose three
\* references all name one of the n vertices
RetainedOf(line, n) ==
  Cardinality({ t \in 1..(Len(line.nums) - 2) :
                  \A r \in { line.nums[1], line.nums[t + 1], line.nums[t + 2] } :
                    r # BadToken /\ r >= One /\ r <= n * One })

\* one color per corner of every retained triangle, record by record
ExpectedColors(lines, library) ==
  LET n == Len(SelectSeq(lines, LAMBDA l : l.type = "v"))
  IN  Flatten([i \in 1..Len(lines) |->
        IF lines[i].type # "f" THEN << >>
        ELSE Flatten([c \in 1..(3 * RetainedOf(lines[i], n)) |->
                        DiffuseOrGray(library, LatestDirective(lines, i))])])

\* C24: parseObj emits colors if and only if a material of the library
\* defines a diffuse color; then the three corners of every retained
\* triangle carry the diffuse color of the material named by the latest
\* usemtl record before the triangle's face record, or the gray when there
\* is no such record, the material is unknown or it has no diffuse color.
C24_ColorsFollowDirectives ==
  \A k \in 1..Len(objCalls) :
    LET Holds(g, library) ==
          /\ (g.colors # None) <=> DefinesColor(library)
          /\ g.colors # None => g.colors[1] = ExpectedColors(objText[1], library)
    IN  Holds(objCalls[k].geometry, LibraryOf(mtlText))

\* a text was imported in which a face follows two directives and a dropped
\* face, with a library that colors both materials
C24_Witness ==
  /\ objCalls # << >>
  /\ objText[1] = SquareBlock \o << usemtl("A"), usemtl("B"), f(<< 1, 9, 3 >>), f(<< 1, 2, 3, 4 >>) >>
       \/ objText[1] = SquareBlock \o << usemtl("A"), usemtl("B"), f(<< 1, 2, 3, 4 >>) >>
  /\ DefinesColor(LibraryOf(mtlText))
  /\ "A" \in DOMAIN LibraryOf(mtlText) /\ LibraryOf(mtlText)["A"].kd # None
  /\ Len(objCalls[1].geometry.colors[1]) = 18
  /\ SubSeq(objCalls[1].geometry.colors[1], 1, 3) = << 0, One, 0 >>

----------------------------------------------------------------------------
(* The shapes of the geographic converter, feature by feature.              *)

TerrainTags == { "asset", "river", "grass", "rock" }

\* the height of a terrain tag: 0, 0.005, 0.01 and 0.015
LevelOf(tag) ==
  CASE tag = "asset" -> 0 [] tag = "river" -> 5 [] tag = "grass" -> 10 [] OTHER -> 15

\* every vertex of the shape has the height y
AtLevel(shape, y) ==
  /\ shape.geometry.positions # << >>
  /\ \A i \in 1..Len(shape.geometry.positions) :
       i % 3 = 2 => shape.geometry.positions[i] = y

Tagged(features, tag) ==
  \E i \in 1..Len(features) :
    features[i].geometryType = "Polygon" /\ features[i].type = tag /\ features[i].ring # << >>

\* C25: the terrain shapes of parseGeoJsonToShapes sit at the height of their
\* tag, asset 0 < river 0.005 < grass 0.01 < rock terrain 0.015, and each of
\* the four kinds, rock terrain included, is produced for a feature of its tag.
C25_StratifiedTerrain ==
  \A k \in 1..Len(geoCalls) :
    geoCalls[k].out.ok =>
      LET Holds(terrain, features) ==
            /\ \A i \in 1..Len(terrain) :
                 \E tag \in TerrainTags :
                   Tagged(features, tag) /\ AtLevel(terrain[i], LevelOf(tag))
            /\ \A tag \in TerrainTags :
                 Tagged(features, tag) =>
                   \E i \in 1..Len(terrain) : AtLevel(terrain[i], LevelOf(tag))
      IN  Holds(TerrainShapes(geoCalls[k].out.data), geoInput[1].features)

\* the Polygon features that emit a shape, in feature order
Emitting(features) ==
  SelectSeq(features, LAMBDA ft : ft.geometryType = "Polygon"
                                   /\ ft.type \in {"tree", "rock", "asset", "grass", "river"})

\* the shapes that are not scattered instances, in output order
Principal(shapes) == SelectSeq(shapes, LAMBDA sh : ~Scattered(sh))

\* the projected ring of a feature under the projection of the first boundary
ProjectedRing(features, ft) ==
  LET first == CHOOSE i \in 1..Len(features) :
                 features[i].type = "asset" /\ \A j \in 1..(i - 1) : features[j].type # "asset"
  IN  [k \in 1..Len(ft.ring) |-> project(Projection(features[first].ring), ft.ring[k])]

\* c is the average of the values, up to the rounding of the last digit
AverageOf(values, c) ==
  LET total == SumOf(values, Len(values))
      diff == c * Len(values) - total
  IN  Len(values) > 0 /\ diff < Len(values) /\ -diff < Len(values)

\* the shape placed for a 'tree' or 'rock' feature
PlacedAtCentroid(shape, model, ring) ==
  /\ shape.geometry = model
  /\ Len(shape.translation) = 3
  /\ AverageOf([k \in 1..Len(ring) |-> ring[k][1]], shape.translation[1])
  /\ shape.translation[2] = 0
  /\ AverageOf([k \in 1..Len(ring) |-> ring[k][2]], shape.translation[3])
  /\ shape.rotation = None /\ shape.scale = None /\ shape.color = None

\* the Geometry of a role: the custom model when one was supplied, else the
\* stock one, which the call has left in the cache
ResolvedModel(modelData, stock) == getModel(modelData, stock).data

\* C26: for each Polygon feature, in feature order, parseGeoJsonToShapes
\* emits one shape for a 'tree' or 'rock' tag (the role's resolved Geometry
\* at (cx, 0, cz), the average of the projected ring, with no rotation, scale
\* or color), one terrain shape for 'asset', 'grass' or 'river', followed by
\* scattered instances only for 'grass' with a custom grass model, and
\* nothing for any other tag.
C26_ShapesPerFeature ==
  \A k \in 1..Len(geoCalls) :
    geoCalls[k].out.ok =>
      LET Holds(shapes, principal, emitting, features, customModels, tree, rock) ==
            /\ Len(principal) = Len(emitting)
            /\ \A i \in 1..Len(emitting) :
                 i <= Len(principal) =>
                   CASE emitting[i].type = "tree" ->
                          PlacedAtCentroid(principal[i], tree, ProjectedRing(features, emitting[i]))
                     [] emitting[i].type = "rock" ->
                          PlacedAtCentroid(principal[i], rock, ProjectedRing(features, emitting[i]))
                     [] OTHER ->
                          /\ principal[i].color # None
                          /\ principal[i].translation = << 0, 0, 0 >>
                          /\ AtLevel(principal[i], LevelOf(emitting[i].type))
            /\ \A j \in 1..Len(shapes) :
                 Scattered(shapes[j]) =>
                   /\ customModels.grass # None
                   /\ \E i \in 1..(j - 1) :
                        /\ GrassTerrain(shapes[i])
                        /\ \A m \in (i + 1)..j : Scattered(shapes[m])
      IN  Holds(geoCalls[k].out.data, Principal(geoCalls[k].out.data),
                Emitting(geoInput[1].features), geoInput[1].features, geoInput[1].customModels,
                ResolvedModel(geoInput[1].customModels.tree, createTree(cachedTree)),
                ResolvedModel(geoInput[1].customModels.rock, createRock(cachedRock)))

\* a custom tree model was placed at the centroid of a triangle, away from
\* the triangle's first vertex
C26_Witness ==
  \E k \in 1..Len(geoCalls) :
    /\ geoCalls[k].out.ok
    /\ geoInput[1].customModels.tree # None
    /\ Len(geoInput[1].features) = 2
    /\ geoInput[1].features[2].type = "tree"
    /\ Len(geoCalls[k].out.data) = 2
    /\ geoCalls[k].out.data[2].geometry = parseObj(GrassObj, None)
    /\ geoCalls[k].out.data[2].translation[1]
         # ProjectedRing(geoInput[1].features, geoInput[1].features[2])[1][1]

----------------------------------------------------------------------------
(* The de-indexed triangles of an imported mesh text.                       *)

\* the number of triangles the text retains: those of the fans whose three
\* references name a vertex of the text
RetainedTriangles(lines) ==
  LET n == Len(SelectSeq(lines, LAMBDA l : l.type = "v"))
      perLine == [i \in 1..Len(lines) |->
                    IF lines[i].type = "f" THEN RetainedOf(lines[i], n) ELSE 0]
  IN  SumOf(perLine, Len(perLine))

\* T triangles in 9T position floats, 9T normal floats and the indices 0..3T-1,
\* the three corners of a triangle with one normal
Deindexed(g, T) ==
  /\ Len(g.positions) = 9 * T
  /\ Len(g.normals) = 9 * T
  /\ g.indices = [i \in 1..(3 * T) |-> i - 1]
  /\ \A t \in 0..(T - 1) :
       9 * t + 9 <= Len(g.normals) =>
         /\ SubSeq(g.normals, 9 * t + 1, 9 * t + 3) = SubSeq(g.normals, 9 * t + 4, 9 * t + 6)
         /\ SubSeq(g.normals, 9 * t + 1, 9 * t + 3) = SubSeq(g.normals, 9 * t + 7, 9 * t + 9)

\* C27: for T retained triangles parseObj returns exactly 9T position floats,
\* 9T normal floats and the index sequence 0, 1, ..., 3T-1; no vertex slot is
\* shared, the three corners of a triangle carry the same normal and index k
\* refers to vertex slot k.
C27_DeindexedTriangles ==
  \A k \in 1..Len(objCalls) :
    LET Holds(g, T) == Deindexed(g, T)
    IN  Holds(objCalls[k].geometry, RetainedTriangles(objText[1]))

----------------------------------------------------------------------------
(* The header of a vertex-property text.                                    *)

\* the lines of the header that belong to the vertex element
VertexElementLines(lines) ==
  { i \in 1..Len(lines) :
      \E e \in 1..(i - 1) :
        /\ lines[e].type = "element" /\ lines[e].name = "vertex"
        /\ \A j \in (e + 1)..i : lines[j].type \notin { "element", "end_header" } }

\* the names of the properties the vertex element declares
VertexPropertyNames(lines) ==
  { lines[i].name : i \in { j \in VertexElementLines(lines) : lines[j].type = "property" } }

DeclaresXYZ(lines) == { "x", "y", "z" } \subseteq VertexPropertyNames(lines)

\* the text without the properties of the other elements
OnlyVertexProperties(lines) ==
  LET kept == { i \in 1..Len(lines) :
                  lines[i].type = "property" => i \in VertexElementLines(lines) }
      Keep(i, all) == IF i \in kept THEN << all[i] >> ELSE << >>
  IN  Flatten([i \in 1..Len(lines) |-> Keep(i, lines)])

\* C28: parsePly fails exactly when the header's vertex element does not
\* declare all three of x, y and z, and then before any vertex or face record
\* is read; properties declared under other elements neither count as vertex
\* properties nor shift the positions of the vertex properties.
C28_FailsExactlyWithoutXYZ ==
  \A k \in 1..Len(plyCalls) :
    LET Holds(out, lines) ==
          /\ ~out.ok <=> ~DeclaresXYZ(lines)
          /\ ~out.ok =>
               /\ out.error = "PLY file must contain x, y, and z vertex properties."
               /\ out.faces = << >>
          /\ out.ok => out.geometry = parsePlyRun(OnlyVertexProperties(lines)).geometry
    IN  Holds(plyCalls[k], plyText[1])

----------------------------------------------------------------------------
(* The material library of a material text.                                 *)

\* the names introduced by the newmtl records
IntroducedNames(lines) ==
  { lines[i].name : i \in { j \in 1..Len(lines) : lines[j].type = "newmtl" /\ lines[j].name # "" } }

\* the last Kd record of at least three values between the latest newmtl
\* record of the name and the next newmtl record of any kind
DiffuseRecordOf(lines, name) ==
  LET named == { i \in 1..Len(lines) : lines[i].type = "newmtl" /\ lines[i].name = name }
      last == CHOOSE i \in named : \A j \in named : j <= i
      later == { i \in (last + 1)..Len(lines) : lines[i].type = "newmtl" }
      next == IF later = { } THEN Len(lines) + 1
              ELSE CHOOSE i \in later : \A j \in later : i <= j
      records == { i \in (last + 1)..(next - 1) :
                     lines[i].type = "Kd" /\ Len(lines[i].nums) >= 3 }
  IN  IF records = { } THEN None
      ELSE Some(SubSeq(lines[CHOOSE i \in records : \A j \in records : j <= i].nums, 1, 3))

\* C29: the keys of the map parseMtl returns are exactly the names introduced
\* by newmtl records; the diffuse color of a name is that of the last Kd record
\* of at least three values after the name's latest newmtl record and before
\* the next newmtl record of any kind, or absent; Kd records before the first
\* newmtl, comments and other records leave the map unchanged.
C29_LibraryFollowsRecords ==
  objCalls # << >> =>
    LET Holds(library, lines) ==
          /\ DOMAIN library = IntroducedNames(lines)
          /\ \A name \in DOMAIN library :
               name \in IntroducedNames(lines) =>
                 library[name].kd = DiffuseRecordOf(lines, name)
    IN  Holds(parseMtl(mtlText[1]), mtlText[1])

----------------------------------------------------------------------------
(* The grid of the sphere generator.                                        *)

\* the Geometry is a grid of stackCount rows of sectorCount cells
SphereGrid(g, sectorCount, stackCount) ==
  LET nVerts == (stackCount + 1) * (sectorCount + 1)
  IN  /\ Len(g.positions) = 3 * nVerts
      /\ Len(g.normals) = 3 * nVerts
      /\ Len(g.indices) = 6 * stackCount * sectorCount
      /\ \A i \in 0..(stackCount - 1) : \A j \in 0..(sectorCount - 1) :
           LET first == i * (sectorCount + 1) + j
               second == first + sectorCount + 1
               at == 6 * (i * sectorCount + j)
           IN  /\ at + 6 <= Len(g.indices)
               /\ SubSeq(g.indices, at + 1, at + 6)
                    = << first, second, first + 1, second, second + 1, first + 1 >>
      /\ \A k \in 1..Len(g.indices) : g.indices[k] < nVerts

====
